---- MODULE Spec2Model ----
(***************************************************************************)
(* Remote-notification relay: the Relay (app-backend), the Decryptor       *)
(* (notification-backend) and the Decryptor's object storage.              *)
(*                                                                         *)
(* Wire strings are modelled as tagged pairs so that the Relay's index,    *)
(* which is keyed by whatever string it is handed, can be compared with    *)
(* opaque identifiers and with envelopes alike:                            *)
(*   <<"id", n>>   an opaque identifier (n = 0: the empty string)          *)
(*   <<"env", k>>  the base64 text of envelope k (k = 0: the empty string) *)
(***************************************************************************)
EXTENDS Integers, Sequences, FiniteSets, TLC

(* ------------------------------ bounds --------------------------------- *)
\* number of opaque identifiers the random source can produce
MaxIds == 3
\* last value of the wall clock
MaxTime == 2
\* concurrent register requests at the Relay
MaxReg == 1
\* concurrent GetToken calls (deliveries) at the Decryptor
MaxGet == 1
\* largest retention window handed to CleanupOldTokens
MaxAgeBound == 1
\* keys one ListObjectsV2 answer holds (the storage service's page size)
MaxKeys == 2
\* distinct plaintext tokens of each length a client encrypts
MaxPlain == 2

(* ------------------------- program constants --------------------------- *)
MinEncryptedLen == 100
MaxEncryptedLen == 10000
MinTokenLen == 10
MaxTokenLen == 1000
MinDecryptedLen == 1
MaxDecryptedLen == 2000
HeaderLen == 16
StatusOK == 200
StatusBadRequest == 400
StatusMethodNotAllowed == 405
StatusInternalServerError == 500
StatusSeeOther == 303

(* ------------------------------ values --------------------------------- *)
Ids == 1..MaxIds
OpaqueID(n) == <<"id", n>>
NoID == <<"id", 0>>
OpaqueIDs == {OpaqueID(n) : n \in Ids}
\* the platform tag a client sends along with envelope k
PlatformOf(k) == IF k % 2 = 1 THEN "android" ELSE "ios"

\* The active private key of the Decryptor, an unrelated key of the same size and
\* an unrelated key of another size (sizes in bytes of the modulus).
privateKey == [id |-> "A", size |-> 4096 \div 8]
otherKey == [id |-> "B", size |-> 4096 \div 8]
smallKey == [id |-> "C", size |-> 2048 \div 8]
Keys == {privateKey, otherKey, smallKey}

\* One envelope: n = length of the base64 text, b64 = it decodes, raw = decoded
\* length, klen = the 4-byte wrapped-key length field, wrap = the key the AES key
\* was wrapped under ("corrupt": wrapped key damaged), aes = length of the
\* unwrapped AES key, tag = the GCM tag verifies, pt = the plaintext token,
\* ptlen = its length, junk = what PKCS#1 v1.5 unpadding makes of the wrapped key
\* under a key it was not wrapped for ("error": the padding check fails, "badlen":
\* a string that is no AES key, "goodlen": a string of the length of an AES key).
Envelope(n, b64, raw, klen, wrap, aes, tag, pt, ptlen) ==
    [n |-> n, b64 |-> b64, raw |-> raw, klen |-> klen, wrap |-> wrap,
     aes |-> aes, tag |-> tag, pt |-> pt, ptlen |-> ptlen, junk |-> "error"]
Junk == {"error", "badlen", "goodlen"}

\* raw length of a well-formed envelope: IV + length field + wrapped key + ciphertext + tag
RawLen(key, ptlen) == 12 + 4 + key.size + ptlen + 16
\* length of the base64 text of raw bytes
B64Len(raw) == 4 * ((raw + 2) \div 3)

\* encryptTokenHybrid: the envelope a client builds for plaintext pt under key
encryptTokenHybrid(pt, ptlen, key) ==
    Envelope(B64Len(RawLen(key, ptlen)), TRUE, RawLen(key, ptlen), key.size,
             key.id, 32, TRUE, pt, ptlen)

EnvTable ==
    << encryptTokenHybrid(1, 39, privateKey),                          \* 1 valid
       encryptTokenHybrid(2, 152, privateKey),                         \* 2 valid
       encryptTokenHybrid(3, 39, otherKey),                            \* 3 wrong key
       [encryptTokenHybrid(4, 39, privateKey) EXCEPT !.tag = FALSE],   \* 4 tampered
       encryptTokenHybrid(5, 5, privateKey),                           \* 5 short plaintext
       Envelope(40, TRUE, 30, 0, "corrupt", 0, FALSE, 6, 0),           \* 6 text too short
       Envelope(10004, TRUE, 7503, privateKey.size, "A", 32, TRUE, 7, 6959), \* 7 text too long
       [encryptTokenHybrid(8, 39, privateKey) EXCEPT !.b64 = FALSE]    \* 8 not base64
    >>

EnvIds == 1..Len(EnvTable)
Env(k) == <<"env", k>>
EmptyEnv == <<"env", 0>>
\* the empty string
EmptyText == Envelope(0, TRUE, 0, 0, "none", 0, FALSE, 0, 0)
EnvOf(e) == IF e = EmptyEnv THEN EmptyText ELSE EnvTable[e[2]]
IsEnvelope(x) == x[1] = "env"
IsOpaqueID(x) == x[1] = "id"

(* --------------------------- HybridCipher ------------------------------ *)
\* the errors of decryptHybridToken, by their format strings
ErrTooShort == "encrypted data too short: %d bytes"
ErrTooLong == "encrypted data too long: %d bytes"
ErrBase64 == "failed to decode base64: %v"
ErrHeader == "encrypted data too short"
ErrKeySize == "invalid encrypted AES key size: expected %d, got %d"
ErrMalformed == "encrypted data malformed"
ErrRSA == "failed to decrypt AES key: %v"
ErrAES == "failed to create AES cipher: %v"
ErrGCM == "failed to decrypt token: %v"
ErrPlainShort == "decrypted token too short: %d bytes"
ErrPlainLong == "decrypted token too long: %d bytes"

\* the result of decryptHybridToken: the error ("" = nil), the token and its length,
\* and the slice expressions <<low, high>> it evaluated on the decoded buffer
DecryptResult(err, e, slices) ==
    [err |-> err, token |-> IF err = "" THEN e.pt ELSE 0,
     tokenlen |-> IF err = "" THEN e.ptlen ELSE 0, slices |-> slices]

\* combinedBytes[:12] and combinedBytes[12:16]
HeaderSlices == << <<0, 12>>, <<12, HeaderLen>> >>
\* combinedBytes[16:16+keyLength] and combinedBytes[16+keyLength:]
BodySlices(e) == << <<HeaderLen, HeaderLen + e.klen>>, <<HeaderLen + e.klen, e.raw>> >>

\* an unwrapping that fails for every wrapped key
DecryptPKCS1v15Refused(e, key) == [err |-> TRUE, keylen |-> 0, right |-> FALSE]

\* an unwrapping that yields the AES key under every private key
DecryptPKCS1v15AnyKey(e, key) == [err |-> FALSE, keylen |-> e.aes, right |-> TRUE]

\* rsa.DecryptPKCS1v15 of the wrapped key: err, the length of the key it yields and
\* whether that is the AES key the token was sealed with
DecryptPKCS1v15(e, key) ==
    IF e.wrap = key.id THEN [err |-> FALSE, keylen |-> e.aes, right |-> TRUE]
    ELSE IF e.junk = "error" THEN [err |-> TRUE, keylen |-> 0, right |-> FALSE]
    ELSE [err |-> FALSE, keylen |-> IF e.junk = "badlen" THEN 7 ELSE 32, right |-> FALSE]

\* a gcm.Open that does not verify the tag
OpenUnauthenticated(e, aesKey) == TRUE

\* gcm.Open: succeeds iff the key is the one the token was sealed with and the tag
\* verifies over nonce and ciphertext
Open(e, aesKey) == aesKey.right /\ e.tag

\* a decryptHybridToken that slices by the length field without checking it
decryptHybridTokenUnchecked(e, key) ==
    IF e.n < MinEncryptedLen THEN DecryptResult(ErrTooShort, e, <<>>)
    ELSE IF e.n > MaxEncryptedLen THEN DecryptResult(ErrTooLong, e, <<>>)
    ELSE IF ~e.b64 THEN DecryptResult(ErrBase64, e, <<>>)
    ELSE IF e.raw < HeaderLen THEN DecryptResult(ErrHeader, e, <<>>)
    ELSE LET aesKey == DecryptPKCS1v15(e, key)
             slices == HeaderSlices \o BodySlices(e)
         IN IF aesKey.err THEN DecryptResult(ErrRSA, e, slices)
            ELSE IF aesKey.keylen \notin {16, 24, 32} THEN DecryptResult(ErrAES, e, slices)
            ELSE IF ~Open(e, aesKey) THEN DecryptResult(ErrGCM, e, slices)
            ELSE DecryptResult("", e, slices)

\* decryptHybridToken: every check of the code, in the code's order
decryptHybridToken(e, key) ==
    IF e.n < MinEncryptedLen THEN DecryptResult(ErrTooShort, e, <<>>)
    ELSE IF e.n > MaxEncryptedLen THEN DecryptResult(ErrTooLong, e, <<>>)
    ELSE IF ~e.b64 THEN DecryptResult(ErrBase64, e, <<>>)
    ELSE IF e.raw < HeaderLen THEN DecryptResult(ErrHeader, e, <<>>)
    ELSE IF e.klen # key.size THEN DecryptResult(ErrKeySize, e, HeaderSlices)
    ELSE IF e.raw < HeaderLen + e.klen THEN DecryptResult(ErrMalformed, e, HeaderSlices)
    ELSE LET aesKey == DecryptPKCS1v15(e, key)
             slices == HeaderSlices \o BodySlices(e)
         IN IF aesKey.err THEN DecryptResult(ErrRSA, e, slices)
            ELSE IF aesKey.keylen \notin {16, 24, 32} THEN DecryptResult(ErrAES, e, slices)
            ELSE IF ~Open(e, aesKey) THEN DecryptResult(ErrGCM, e, slices)
            ELSE IF e.ptlen < MinDecryptedLen THEN DecryptResult(ErrPlainShort, e, slices)
            ELSE IF e.ptlen > MaxDecryptedLen THEN DecryptResult(ErrPlainLong, e, slices)
            ELSE DecryptResult("", e, slices)

Decrypts(data) == decryptHybridToken(EnvOf(data), privateKey).err = ""

(* ------------------------------- state --------------------------------- *)
VARIABLES
    now,        \* the wall clock read by time.Now()
    tokenIDs,   \* Relay: TokenStore.tokenIDs, wire string -> registration time
    tokens,     \* Decryptor: TokenStore.tokens, envelope text -> registration time
    bucket,     \* Decryptor: the objects of the storage bucket, object key -> TokenStorageInfo
    reg,        \* register requests in flight at the Relay, one per worker
    bc,         \* the broadcast (handleSendAll) in progress at the Relay
    get,        \* GetToken calls in flight at the Decryptor, one per worker
    cl,         \* the CleanupOldTokens pass of the background routine
    used,       \* identifiers the random source has produced so far
    collide,    \* whether the random source may repeat an identifier
    returned,   \* history: identifiers carried by a successful Decryptor registration response
    registered, \* history: opaque identifier -> the record as its registration stored it
    evicted,    \* history: identifiers whose record was removed and not registered again
    dl,         \* the last delivery request the Relay sent and what the Decryptor made of it
    probe,      \* one envelope, what was done to it and what the Decryptor made of it
    sh,         \* the last call of a storage instance on the shared bucket
    wait,       \* handler -> where it is in the external calls it makes
    conc,       \* the Relay's TokenStore under concurrent calls: its lock and its callers
    gen,        \* one call of generateOpaqueID: the random bytes and the identifier
    touch,      \* GetToken calls on one record, one per goroutine
    lg          \* one identifier of some length and the log previews taken of it

vars == <<now, tokenIDs, tokens, bucket, reg, bc, get, cl, used, collide, returned,
          registered, evicted, dl, probe, sh, wait, conc, gen, touch, lg>>

\* the Relay's own variables, the Decryptor's stores, the history of the registry
relayVars == <<tokenIDs, reg, bc>>
storeVars == <<tokens, bucket>>
histVars == <<used, returned, registered, evicted>>
\* the records of single requests
auxVars == <<dl, probe, sh, wait, conc, gen, touch, lg>>

Regs == 1..MaxReg
Gets == 1..MaxGet

(* --------------------------- map helpers ------------------------------- *)
Put(m, k, v) == [x \in DOMAIN m \cup {k} |-> IF x = k THEN v ELSE m[x]]
Remove(m, k) == [x \in DOMAIN m \ {k} |-> m[x]]
EmptyMap == [x \in {} |-> 0]

(* ------------------------- Relay: TokenStore --------------------------- *)
\* TokenStore.AddTokenID: ts.tokenIDs[tokenID] = time.Now()
AddTokenIDDropped(ts, tokenID, t) == ts

\* an AddTokenID that keeps the time of an identifier it already holds
AddTokenIDOnce(ts, tokenID, t) == IF tokenID \in DOMAIN ts THEN ts ELSE Put(ts, tokenID, t)

AddTokenID(ts, tokenID, t) == Put(ts, tokenID, t)
\* a GetTokenIDs that leaves out the identifiers whose record is gone
GetTokenIDsPresent(ts) == {id \in DOMAIN ts : <<"hashA", id>> \in DOMAIN bucket}

\* TokenStore.GetTokenIDs
GetTokenIDs(ts) == DOMAIN ts
\* TokenStore.Count
Count(ts) == Cardinality(DOMAIN ts)

(* ----------------------- Decryptor: TokenStore ------------------------- *)
\* TokenStore.AddToken: ts.tokens[token] = time.Now()
AddToken(ts, token, t) == Put(ts, token, t)

(* ---------------------- Decryptor: object storage ---------------------- *)
\* ExoscaleStorage.publicKeyHash of the running instance
publicKeyHash == "hashA"
\* ExoscaleStorage.buildObjectKey: "<public-key-hash>/<opaque-id>"
buildObjectKey(hash, opaqueID) == <<hash, opaqueID>>
ObjectKey(opaqueID) == buildObjectKey(publicKeyHash, opaqueID)

\* TokenStorageInfo
TokenStorageInfo(opaqueID, encryptedData, platform, registeredAt, lastUsedAt, hash) ==
    [opaque_id |-> opaqueID, encrypted_data |-> encryptedData, platform |-> platform,
     registered_at |-> registeredAt, last_used_at |-> lastUsedAt, public_key_hash |-> hash]
NoInfo == TokenStorageInfo(NoID, EmptyEnv, "", 0, 0, "")

\* a StoreToken that reports success without having put the object
StoreTokenLost(b, hash, opaqueID, encryptedData, platform, t) == b

\* a StoreToken that puts the decrypted token in the place of the envelope
StoreTokenPlain(b, hash, opaqueID, encryptedData, platform, t) ==
    Put(b, <<hash, opaqueID>>,
        [opaque_id |-> opaqueID, encrypted_data |-> <<"plain", EnvOf(encryptedData).pt>>,
         platform |-> platform, registered_at |-> t, last_used_at |-> t,
         public_key_hash |-> hash])

\* ExoscaleStorage.StoreToken, the PutObject having succeeded
StoreToken(b, hash, opaqueID, encryptedData, platform, t) ==
    Put(b, buildObjectKey(hash, opaqueID),
        TokenStorageInfo(opaqueID, encryptedData, platform, t, t, hash))

\* ExoscaleStorage.DeleteToken, the DeleteObject having succeeded
DeleteToken(b, hash, opaqueID) == Remove(b, buildObjectKey(hash, opaqueID))

\* ExoscaleStorage.updateLastUsed: PutObject of the whole record the caller holds
updateLastUsed(b, hash, opaqueID, info) == Put(b, buildObjectKey(hash, opaqueID), info)

\* a GetToken that stamps both times of the record
TouchedBoth(info, t) == [info EXCEPT !.last_used_at = t, !.registered_at = t]

\* the record GetToken hands to updateLastUsed and returns: info.LastUsedAt = time.Now()
Touched(info, t) == [info EXCEPT !.last_used_at = t]

Stored(opaqueID) == ObjectKey(opaqueID) \in DOMAIN bucket

\* cleanup bookkeeping: a storage operation of another caller during or after a pass
Disturb(c) ==
    IF c.pc = "idle" THEN c ELSE [c EXCEPT !.quiet = FALSE, !.before = EmptyMap]

(* ----------------------- messages and requests ------------------------- *)
Response(status, success, tokenID) ==
    [status |-> status, success |-> success, token_id |-> tokenID]
NoResponse == Response(0, FALSE, NoID)
Outcome(status, success, total) == [status |-> status, success |-> success, total |-> total]
NoOutcome == Outcome(0, FALSE, 0)
\* an answer of the Decryptor as its caller reads it: the status, the message (the
\* text of http.Error or the "message" of the JSON body) and the "error" of the JSON
\* body, an error with the errors it wraps, outermost first
Reply(status, message, error) == [status |-> status, message |-> message, error |-> error]
NoReply == Reply(0, "", <<>>)

\* a register request at the Relay: data, platform = the request; resp = the answer of
\* the Decryptor; out = the answer to the client; stored, fault = history: the
\* identifier the Decryptor stored the request under, what happened to its answer
RegIdle ==
    [pc |-> "idle", data |-> EmptyEnv, platform |-> "", resp |-> NoResponse,
     out |-> NoOutcome, stored |-> NoID, fault |-> "none"]
RegDone(out, stored, fault) ==
    [pc |-> "done", data |-> EmptyEnv, platform |-> "", resp |-> NoResponse,
     out |-> out, stored |-> stored, fault |-> fault]

Methods == {"POST", "GET"}
\* the register requests a client sends: one with the wrong method, one whose body is
\* not JSON, and a well-formed one for every envelope and for the empty string
Requests ==
    {[method |-> "GET", json |-> TRUE, k |-> 1], [method |-> "POST", json |-> FALSE, k |-> 1]}
    \cup {[method |-> "POST", json |-> TRUE, k |-> k] : k \in EnvIds \cup {0}}
\* what can happen to the Decryptor's answer on its way into forwardTokenToBackend:
\* http.Post fails, the body cannot be read, the body is not JSON, the body says
\* success = false, the body carries no token_id
Faults == {"none", "post", "read", "parse", "refused", "noid"}

(* ---------------------- Decryptor: handleRegister ---------------------- *)
\* a handleRegister that checks the size of the text only
DecryptorRegisterCheckSizeOnly(method, json, data) ==
    IF method # "POST" THEN StatusMethodNotAllowed
    ELSE IF ~json THEN StatusBadRequest
    ELSE IF data = EmptyEnv THEN StatusBadRequest
    ELSE IF EnvOf(data).n < MinEncryptedLen THEN StatusBadRequest
    ELSE IF EnvOf(data).n > MaxEncryptedLen THEN StatusBadRequest
    ELSE StatusOK

\* handleRegister up to the store, for the encrypted_data e of the request: the
\* http.Error of an early return, StatusOK with no message to go on
handleRegisterReply(method, json, e) ==
    IF method # "POST" THEN Reply(StatusMethodNotAllowed, "Method not allowed", <<>>)
    ELSE IF ~json THEN Reply(StatusBadRequest, "Invalid JSON", <<>>)
    ELSE IF e.n = 0 THEN Reply(StatusBadRequest, "Encrypted data is required", <<>>)
    ELSE IF e.n < MinEncryptedLen THEN Reply(StatusBadRequest, "Encrypted data too short", <<>>)
    ELSE IF e.n > MaxEncryptedLen THEN Reply(StatusBadRequest, "Encrypted data too long", <<>>)
    ELSE LET d == decryptHybridToken(e, privateKey) IN
         IF d.err # "" THEN Reply(StatusBadRequest, "Invalid encrypted token", <<>>)
         ELSE IF d.tokenlen < MinTokenLen
              THEN Reply(StatusBadRequest, "Decrypted token too short", <<>>)
         ELSE IF d.tokenlen > MaxTokenLen
              THEN Reply(StatusBadRequest, "Decrypted token too long", <<>>)
         ELSE Reply(StatusOK, "", <<>>)

\* handleRegister up to the store: the status of an early return, StatusOK to go on
DecryptorRegisterCheck(method, json, data) ==
    handleRegisterReply(method, json, EnvOf(data)).status

\* the opaque identifier made of one outcome of the random source (32 random bytes)
generateOpaqueID(rnd) == OpaqueID(rnd)
\* outcomes of the random source: 256 random bits do not repeat unless collide
RandomOutcomes == IF collide THEN Ids ELSE Ids \ used
\* the draws of the random source and the PutObject outcomes a request can meet:
\* a request rejected with status st reaches neither
Draws(st) == IF st = StatusOK THEN RandomOutcomes ELSE {0}
PutOutcomes(st) == IF st = StatusOK THEN BOOLEAN ELSE {TRUE}
\* a registration without the uniqueness check
IsUniqueUnchecked(b, opaqueID) == TRUE

\* the uniqueness check of registration: a collision makes the generation retry
IsUnique(b, opaqueID) == ObjectKey(opaqueID) \notin DOMAIN b

\* the answer of the Decryptor's handleRegister to a request; rnd is the outcome of
\* the random source, putok whether the PutObject of StoreToken succeeds
DecryptorRegisterResponse(method, json, data, rnd, putok) ==
    LET st == DecryptorRegisterCheck(method, json, data) IN
    IF st # StatusOK THEN Response(st, FALSE, NoID)
    ELSE IF ~putok THEN Response(StatusInternalServerError, FALSE, NoID)
    ELSE Response(StatusOK, TRUE, generateOpaqueID(rnd))

\* the effect of the Decryptor's handleRegister on the registry and its history
DecryptorHandleRegister(method, json, data, platform, rnd, putok) ==
    LET id == generateOpaqueID(rnd) IN
    IF DecryptorRegisterCheck(method, json, data) # StatusOK
    THEN UNCHANGED <<storeVars, cl, histVars>>
    ELSE /\ IsUnique(bucket, id)
         /\ used' = used \cup {rnd}
         /\ IF putok
            THEN /\ bucket' = StoreToken(bucket, publicKeyHash, id, data, platform, now)
                 /\ tokens' = AddToken(tokens, data, now)
                 /\ returned' = returned \cup {id}
                 /\ registered' = Put(registered, id,
                        TokenStorageInfo(id, data, platform, now, now, publicKeyHash))
                 /\ evicted' = evicted \ {id}
                 /\ cl' = Disturb(cl)
            ELSE UNCHANGED <<storeVars, cl, returned, registered, evicted>>

\* a register request sent straight to the Decryptor's endpoint
DecryptorRegister ==
    /\ \E req \in Requests :
         LET st == DecryptorRegisterCheck(req.method, req.json, Env(req.k)) IN
         \E rnd \in Draws(st), putok \in PutOutcomes(st) :
           DecryptorHandleRegister(req.method, req.json, Env(req.k), PlatformOf(req.k),
                                   rnd, putok)
    /\ UNCHANGED <<now, relayVars, get, collide>>
    /\ UNCHANGED auxVars

(* ------------------------ Relay: handleRegister ------------------------ *)
\* a handleRegister that forwards a request without encrypted_data
RelayRegisterCheckLax(method, json, data) ==
    IF method # "POST" THEN StatusMethodNotAllowed
    ELSE IF ~json THEN StatusBadRequest
    ELSE 0

\* handleRegister up to the forward: the status of an early return, 0 to go on
RelayRegisterCheck(method, json, data) ==
    IF method # "POST" THEN StatusMethodNotAllowed
    ELSE IF ~json THEN StatusBadRequest
    ELSE IF data = EmptyEnv THEN StatusBadRequest
    ELSE 0

\* a forwardTokenToBackend that trusts whatever answer arrived
forwardTokenToBackendLax(fault, resp) ==
    IF fault = "post" THEN [err |-> TRUE, id |-> NoID]
    ELSE [err |-> FALSE, id |-> resp.token_id]

\* forwardTokenToBackend, from the answer of http.Post on: [err, id]
forwardTokenToBackend(fault, resp) ==
    IF fault = "post" THEN [err |-> TRUE, id |-> NoID]
    ELSE IF resp.status # StatusOK THEN [err |-> TRUE, id |-> NoID]
    ELSE IF fault \in {"read", "parse"} THEN [err |-> TRUE, id |-> NoID]
    ELSE LET body == IF fault = "refused" THEN Response(StatusOK, FALSE, resp.token_id)
                     ELSE IF fault = "noid" THEN Response(StatusOK, TRUE, NoID)
                     ELSE resp
         IN IF ~body.success \/ body.token_id = NoID
            THEN [err |-> TRUE, id |-> NoID]
            ELSE [err |-> FALSE, id |-> body.token_id]

\* a handleRegister that indexes the request's encrypted_data
RegisterKeyEnvelope(request, opaqueID) == request.data

\* the key handleRegister hands to AddTokenID
RegisterKey(request, opaqueID) == opaqueID

\* handleRegister, first half: read and check the request, post it to the Decryptor,
\* whose handleRegister runs when the request reaches it
RelayRegister(r) ==
    /\ reg[r].pc \in {"idle", "done"}
    /\ \E req \in Requests, reach \in BOOLEAN :
         LET st == RelayRegisterCheck(req.method, req.json, Env(req.k))
             k == req.k
         IN IF st # 0 \/ ~reach
            THEN /\ reg' = [reg EXCEPT ![r] = RegDone(Outcome(
                              IF st # 0 THEN st ELSE StatusInternalServerError, FALSE, 0),
                              NoID, IF st # 0 THEN "none" ELSE "post")]
                 /\ UNCHANGED <<storeVars, cl, histVars>>
            ELSE \E rnd \in Draws(DecryptorRegisterCheck("POST", TRUE, Env(k))),
                    putok \in PutOutcomes(DecryptorRegisterCheck("POST", TRUE, Env(k))) :
                 LET resp == DecryptorRegisterResponse("POST", TRUE, Env(k), rnd, putok) IN
                 /\ DecryptorHandleRegister("POST", TRUE, Env(k), PlatformOf(k), rnd, putok)
                 /\ reg' = [reg EXCEPT ![r] =
                       [RegIdle EXCEPT !.pc = "responded", !.resp = resp,
                                       !.data = Env(k), !.platform = PlatformOf(k),
                                       !.stored = resp.token_id]]
    /\ UNCHANGED <<now, tokenIDs, bc, get, collide>>
    /\ UNCHANGED auxVars

\* handleRegister, second half: the result of forwardTokenToBackend, AddTokenID, the answer
RelayRegisterFinish(r) ==
    /\ reg[r].pc = "responded"
    /\ \E fault \in Faults :
         LET res == forwardTokenToBackend(fault, reg[r].resp) IN
         IF res.err
         THEN /\ reg' = [reg EXCEPT ![r] =
                    RegDone(Outcome(StatusInternalServerError, FALSE, 0), reg[r].stored, fault)]
              /\ UNCHANGED tokenIDs
         ELSE /\ tokenIDs' = AddTokenID(tokenIDs, RegisterKey(reg[r], res.id), now)
              /\ reg' = [reg EXCEPT ![r] =
                    RegDone(Outcome(StatusOK, TRUE, Count(tokenIDs')), reg[r].stored, fault)]
    /\ UNCHANGED <<now, storeVars, bc, get, cl, collide, histVars>>
    /\ UNCHANGED auxVars


(* ------------------------- Decryptor: handleNotify --------------------- *)
\* a message built from a token that was wiped before the send
MessageWiped(token, tokenlen, title, body) ==
    [token |-> 0, tokenlen |-> 0, title |-> title, body |-> body]

\* the messaging.Message handed to the delivery provider
Message(token, tokenlen, title, body) ==
    [token |-> token, tokenlen |-> tokenlen, title |-> title, body |-> body]
NoMessage == Message(0, 0, "", "")

\* sendFCMNotification: decrypt, send. err = the error with the errors it wraps
\* (<<>> = nil), decrypted = decryptHybridToken was called, message = the message
\* messagingClient.Send was called with (NoMessage: it was not called)
sendFCMNotification(e, title, body, fcmok) ==
    LET d == decryptHybridToken(e, privateKey) IN
    IF d.err # ""
    THEN [err |-> <<"failed to decrypt token: %v", d.err>>, decrypted |-> TRUE,
          message |-> NoMessage]
    ELSE [err |-> IF fcmok THEN <<>> ELSE <<"failed to send FCM message: %v">>,
          decrypted |-> TRUE, message |-> Message(d.token, d.tokenlen, title, body)]

\* a handleNotify without the size checks of its own
handleNotifyUnsized(method, json, e, title, body, fcmok) ==
    IF method # "POST" THEN Reply(StatusMethodNotAllowed, "Method not allowed", <<>>)
    ELSE IF ~json THEN Reply(StatusBadRequest, "Invalid JSON", <<>>)
    ELSE IF e.n = 0 \/ title = "" \/ body = ""
         THEN Reply(StatusBadRequest, "Encrypted data, title and body are required", <<>>)
    ELSE LET sent == sendFCMNotification(e, title, body, fcmok) IN
         IF sent.err # <<>>
         THEN Reply(StatusInternalServerError, "Failed to send notification", sent.err)
         ELSE Reply(StatusOK, "Notification sent successfully", <<>>)

\* handleNotify of the source, which takes the encrypted_data e itself
handleNotify(method, json, e, title, body, fcmok) ==
    IF method # "POST" THEN Reply(StatusMethodNotAllowed, "Method not allowed", <<>>)
    ELSE IF ~json THEN Reply(StatusBadRequest, "Invalid JSON", <<>>)
    ELSE IF e.n = 0 \/ title = "" \/ body = ""
         THEN Reply(StatusBadRequest, "Encrypted data, title and body are required", <<>>)
    ELSE IF e.n < MinEncryptedLen THEN Reply(StatusBadRequest, "Encrypted data too short", <<>>)
    ELSE IF e.n > MaxEncryptedLen THEN Reply(StatusBadRequest, "Encrypted data too long", <<>>)
    ELSE LET sent == sendFCMNotification(e, title, body, fcmok) IN
         IF sent.err # <<>>
         THEN Reply(StatusInternalServerError, "Failed to send notification", sent.err)
         ELSE Reply(StatusOK, "Notification sent successfully", <<>>)

\* a GetToken that answers a missing object with an empty record and no error
GetTokenBlank(b, opaqueID, getok) ==
    IF getok /\ ObjectKey(opaqueID) \in DOMAIN b
    THEN [info |-> b[ObjectKey(opaqueID)], err |-> ""]
    ELSE [info |-> NoInfo, err |-> ""]

\* ExoscaleStorage.GetToken up to the decoding of the object: the record and the error
\* ("" = nil); getok = GetObject reaches the bucket
GetToken(b, opaqueID, getok) ==
    IF getok /\ ObjectKey(opaqueID) \in DOMAIN b
    THEN [info |-> b[ObjectKey(opaqueID)], err |-> ""]
    ELSE [info |-> NoInfo, err |-> "failed to get token from SOS: %v"]

\* a delivery request for token_id at the Decryptor: the record is resolved with
\* GetToken and its envelope handed to sendFCMNotification. outcome = the outcome
\* named by the specification, reply = the answer, decrypted, message as above
DecryptorNotify(b, opaqueID, title, body, getok, fcmok) ==
    LET got == GetToken(b, opaqueID, getok) IN
    IF got.err # ""
    THEN [outcome |-> "NotFound",
          reply |-> Reply(StatusInternalServerError, "Token not found", <<got.err>>),
          decrypted |-> FALSE, message |-> NoMessage]
    ELSE LET sent == sendFCMNotification(EnvOf(got.info.encrypted_data), title, body, fcmok)
         IN [outcome |-> IF sent.err = <<>> THEN "Delivered"
                         ELSE IF sent.message = NoMessage THEN "DecryptionFailed"
                         ELSE "DeliveryFailed",
             reply |-> IF sent.err = <<>>
                       THEN Reply(StatusOK, "Notification sent successfully", <<>>)
                       ELSE Reply(StatusInternalServerError, "Failed to send notification",
                                  sent.err),
             decrypted |-> sent.decrypted, message |-> sent.message]

\* the status the Decryptor answers a delivery request of the Relay with
DecryptorNotifyStatus(b, opaqueID, getok, fcmok) ==
    DecryptorNotify(b, opaqueID, "App Notification", "hello", getok, fcmok).reply.status

\* GetToken as one step: the bucket after GetObject and updateLastUsed
GetTokenBucket(b, opaqueID, getok, putok, t) ==
    IF getok /\ putok /\ ObjectKey(opaqueID) \in DOMAIN b
    THEN updateLastUsed(b, publicKeyHash, opaqueID, Touched(b[ObjectKey(opaqueID)], t))
    ELSE b

(* ------------------------- Relay: handleSendAll ------------------------ *)
\* snapshot = the slice GetTokenIDs returned, ids = the part of it the loop has not
\* reached yet, sent, errors = successCount, errorCount
BcIdle ==
    [pc |-> "idle", snapshot |-> {}, ids |-> {}, sent |-> 0, errors |-> 0, status |-> 0]
Messages == {"", "hello"}

\* sendNotificationToBackend: nil (TRUE) iff the post succeeded with status 200
sendNotificationToBackend(reach, status) == reach /\ status = StatusOK

\* a handleSendAll that starts the loop without a message
handleSendAllCheckLax(method, message, ids) ==
    IF method # "POST" THEN StatusMethodNotAllowed
    ELSE IF ids = {} THEN StatusBadRequest
    ELSE 0

\* handleSendAll up to the loop, ids = what GetTokenIDs returned: the status of an
\* early return, 0 to go on
handleSendAllCheck(method, message, ids) ==
    IF method # "POST" THEN StatusMethodNotAllowed
    ELSE IF message = "" THEN StatusBadRequest
    ELSE IF ids = {} THEN StatusBadRequest
    ELSE 0

\* handleSendAll up to the loop
BroadcastStart ==
    /\ bc.pc \in {"idle", "done"}
    /\ \E method \in Methods, message \in Messages :
         LET st == handleSendAllCheck(method, message, GetTokenIDs(tokenIDs)) IN
         bc' = IF st # 0 THEN [BcIdle EXCEPT !.pc = "done", !.status = st]
               ELSE [BcIdle EXCEPT !.pc = "sending", !.snapshot = GetTokenIDs(tokenIDs),
                                   !.ids = GetTokenIDs(tokenIDs)]
    /\ UNCHANGED <<now, tokenIDs, reg, storeVars, get, cl, collide, histVars>>
    /\ UNCHANGED auxVars

\* a loop that gives up at the first failure
AfterSendAbort(b, tokenID, ok) ==
    IF ok
    THEN [b EXCEPT !.ids = b.ids \ {tokenID}, !.sent = b.sent + 1,
                   !.pc = IF b.ids \ {tokenID} = {} THEN "done" ELSE "sending",
                   !.status = IF b.ids \ {tokenID} = {} THEN StatusSeeOther ELSE 0]
    ELSE [b EXCEPT !.ids = {}, !.errors = b.errors + 1, !.pc = "done",
                   !.status = StatusSeeOther]

\* the loop of handleSendAll after the call for tokenID returned: the counters, the
\* next element, and the redirect once the slice is exhausted
AfterSend(b, tokenID, ok) ==
    [b EXCEPT !.ids = b.ids \ {tokenID},
              !.sent = IF ok THEN b.sent + 1 ELSE b.sent,
              !.errors = IF ok THEN b.errors ELSE b.errors + 1,
              !.pc = IF b.ids \ {tokenID} = {} THEN "done" ELSE "sending",
              !.status = IF b.ids \ {tokenID} = {} THEN StatusSeeOther ELSE 0]

\* handleSendAll: one iteration of the loop over the snapshot of the index
BroadcastSend ==
    /\ bc.pc = "sending"
    /\ \E tokenID \in bc.ids, reach, getok, putok, fcmok \in BOOLEAN :
         LET st == DecryptorNotifyStatus(bucket, tokenID, getok, fcmok)
             ok == sendNotificationToBackend(reach, st)
         IN /\ bucket' = IF reach THEN GetTokenBucket(bucket, tokenID, getok, putok, now)
                         ELSE bucket
            /\ bc' = AfterSend(bc, tokenID, ok)
    /\ cl' = Disturb(cl)
    /\ UNCHANGED <<now, tokenIDs, reg, tokens, get, collide, histVars>>
    /\ UNCHANGED auxVars

(* ------------------- Decryptor: ExoscaleStorage.GetToken --------------- *)
GetIdle == [pc |-> "idle", id |-> NoID, info |-> NoInfo, result |-> ""]

\* GetToken, first half: GetObject, decode, set LastUsedAt
GetTokenRead(g) ==
    /\ get[g].pc \in {"idle", "done"}
    /\ \E opaqueID \in OpaqueIDs, ok \in BOOLEAN :
         IF ok /\ ObjectKey(opaqueID) \in DOMAIN bucket
         THEN get' = [get EXCEPT ![g] =
                 [pc |-> "read", id |-> opaqueID,
                  info |-> Touched(bucket[ObjectKey(opaqueID)], now), result |-> ""]]
         ELSE get' = [get EXCEPT ![g] =
                 [pc |-> "done", id |-> opaqueID, info |-> NoInfo, result |-> "error"]]
    /\ cl' = Disturb(cl)
    /\ UNCHANGED <<now, relayVars, storeVars, collide, histVars>>
    /\ UNCHANGED auxVars

\* GetToken, second half: updateLastUsed (a failure is logged only), return &info
GetTokenUpdate(g) ==
    /\ get[g].pc = "read"
    /\ \E ok \in BOOLEAN :
         bucket' = IF ok THEN updateLastUsed(bucket, publicKeyHash, get[g].id, get[g].info)
                   ELSE bucket
    /\ get' = [get EXCEPT ![g].pc = "done", ![g].result = "ok"]
    /\ cl' = Disturb(cl)
    /\ UNCHANGED <<now, relayVars, tokens, collide, histVars>>
    /\ UNCHANGED auxVars

(* ------------------ Decryptor: ExoscaleStorage.DeleteToken ------------- *)
\* a DeleteToken call outside the cleanup pass (administrative delete)
DeleteTokenCall ==
    /\ \E opaqueID \in OpaqueIDs, ok \in BOOLEAN :
         /\ bucket' = IF ok THEN DeleteToken(bucket, publicKeyHash, opaqueID) ELSE bucket
         /\ evicted' = IF ok /\ Stored(opaqueID) THEN evicted \cup {opaqueID} ELSE evicted
    /\ cl' = Disturb(cl)
    /\ UNCHANGED <<now, relayVars, tokens, get, used, collide, returned, registered>>
    /\ UNCHANGED auxVars

(* --------------- Decryptor: ExoscaleStorage.CleanupOldTokens ----------- *)
RECURSIVE SortedKeys(_)
\* the keys of a set in the order the storage service lists them
SortedKeys(S) ==
    IF S = {} THEN <<>>
    ELSE LET m == CHOOSE x \in S : \A y \in S : x[2][2] <= y[2][2]
         IN <<m>> \o SortedKeys(S \ {m})

Min(a, b) == IF a < b THEN a ELSE b

\* a ListObjectsV2 without the Prefix
ListObjectsV2Unprefixed(b, hash) ==
    LET all == SortedKeys(DOMAIN b)
    IN SubSeq(all, 1, Min(Len(all), MaxKeys))

\* one ListObjectsV2 call: the first page of the keys under the prefix
ListObjectsV2(b, hash) ==
    LET all == SortedKeys({k \in DOMAIN b : k[1] = hash})
    IN SubSeq(all, 1, Min(Len(all), MaxKeys))

ClIdle ==
    [pc |-> "idle", keys |-> <<>>, listed |-> 0, tokens |-> <<>>, i |-> 0, maxAge |-> 0,
     cutoff |-> 0, deleted |-> 0, attempts |-> <<>>, quiet |-> TRUE, before |-> EmptyMap, err |-> FALSE]

\* a comparison that also holds for equal times
BeforeOrAt(t, u) == t <= u

\* time.Time.Before
Before(t, u) == t < u

\* CleanupOldTokens: ListAllTokens begins with ListObjectsV2
CleanupStart ==
    /\ cl.pc \in {"idle", "done"}
    /\ \E maxAge \in 1..MaxAgeBound, ok \in BOOLEAN :
         cl' = IF ok
               THEN [ClIdle EXCEPT !.pc = "listing", !.maxAge = maxAge, !.before = bucket,
                                   !.keys = ListObjectsV2(bucket, publicKeyHash),
                                   !.listed = Len(ListObjectsV2(bucket, publicKeyHash))]
               ELSE [ClIdle EXCEPT !.pc = "done", !.maxAge = maxAge, !.err = TRUE]
    /\ UNCHANGED <<now, relayVars, storeVars, get, collide, histVars>>
    /\ UNCHANGED auxVars

\* ListAllTokens: GetObject of the next listed key; an unreadable object is skipped
CleanupFetch ==
    /\ cl.pc = "listing"
    /\ cl.keys # <<>>
    /\ \E ok \in BOOLEAN :
         LET key == Head(cl.keys) IN
         cl' = [cl EXCEPT !.keys = Tail(cl.keys),
                          !.tokens = IF ok /\ key \in DOMAIN bucket
                                     THEN Append(cl.tokens, bucket[key]) ELSE cl.tokens]
    /\ UNCHANGED <<now, relayVars, storeVars, get, collide, histVars>>
    /\ UNCHANGED auxVars

\* CleanupOldTokens: cutoff := time.Now().Add(-maxAge), deleted := 0
CleanupCutoff ==
    /\ cl.pc = "listing"
    /\ cl.keys = <<>>
    /\ cl' = [cl EXCEPT !.cutoff = now - cl.maxAge, !.i = 1,
                        !.pc = IF cl.tokens = <<>> THEN "done" ELSE "deleting"]
    /\ UNCHANGED <<now, relayVars, storeVars, get, collide, histVars>>
    /\ UNCHANGED auxVars

\* the loop moves on to the next listed token
NextToken(c) == [c EXCEPT !.i = c.i + 1,
                          !.pc = IF c.i = Len(c.tokens) THEN "done" ELSE "deleting"]

\* a loop that gives up at the first failed DeleteToken
AfterFailedDeleteAbort(c, opaqueID) ==
    [c EXCEPT !.pc = "done",
              !.attempts = Append(c.attempts, [id |-> opaqueID, ok |-> FALSE])]

\* the loop after a failed DeleteToken: log, "continue"
AfterFailedDelete(c, opaqueID) ==
    [NextToken(c) EXCEPT !.attempts = Append(c.attempts, [id |-> opaqueID, ok |-> FALSE])]

\* the loop after a successful DeleteToken: deleted++
AfterDelete(c, opaqueID) ==
    [NextToken(c) EXCEPT !.deleted = c.deleted + 1,
                         !.attempts = Append(c.attempts, [id |-> opaqueID, ok |-> TRUE])]

\* CleanupOldTokens: one iteration of the loop over the listed tokens
CleanupDelete ==
    /\ cl.pc = "deleting"
    /\ LET token == cl.tokens[cl.i] IN
       IF Before(token.last_used_at, cl.cutoff)
       THEN \E ok \in BOOLEAN :
            IF ok
            THEN /\ bucket' = DeleteToken(bucket, publicKeyHash, token.opaque_id)
                 /\ evicted' = IF Stored(token.opaque_id)
                               THEN evicted \cup {token.opaque_id} ELSE evicted
                 /\ cl' = AfterDelete(cl, token.opaque_id)
            ELSE /\ cl' = AfterFailedDelete(cl, token.opaque_id)
                 /\ UNCHANGED <<bucket, evicted>>
       ELSE /\ cl' = NextToken(cl)
            /\ UNCHANGED <<bucket, evicted>>
    /\ UNCHANGED <<now, relayVars, tokens, get, used, collide, returned, registered>>
    /\ UNCHANGED auxVars

(* ------------------- Relay: sendNotificationToBackend ------------------ *)
\* the record of one delivery request: id, title, body = the request; reach = it
\* reached the Decryptor; getok = GetObject reached the bucket; found, info = the record of id when the request was made;
\* outcome, reply, decrypted, message = what the Decryptor made of it; err = the
\* error sendNotificationToBackend returned
DlIdle ==
    [id |-> NoID, title |-> "", body |-> "", reach |-> FALSE, getok |-> FALSE, found |-> FALSE,
     info |-> NoInfo, outcome |-> "none", reply |-> NoReply, decrypted |-> FALSE,
     message |-> NoMessage, err |-> FALSE]

\* one call of sendNotificationToBackend for tokenID, as handleSendAll makes it, and
\* the handling of the request at the Decryptor
SendNotification ==
    /\ \E tokenID \in OpaqueIDs, body \in Messages \ {""}, reach, getok, putok, fcmok \in BOOLEAN :
         LET d == DecryptorNotify(bucket, tokenID, "App Notification", body, getok, fcmok) IN
         /\ bucket' = IF reach THEN GetTokenBucket(bucket, tokenID, getok, putok, now)
                      ELSE bucket
         /\ dl' = [id |-> tokenID, title |-> "App Notification", body |-> body,
                   reach |-> reach, getok |-> reach /\ getok, found |-> Stored(tokenID),
                   info |-> IF Stored(tokenID) THEN bucket[ObjectKey(tokenID)] ELSE NoInfo,
                   outcome |-> IF reach THEN d.outcome ELSE "none",
                   reply |-> IF reach THEN d.reply ELSE NoReply,
                   decrypted |-> reach /\ d.decrypted,
                   message |-> IF reach THEN d.message ELSE NoMessage,
                   err |-> ~sendNotificationToBackend(reach, d.reply.status)]
    /\ cl' = Disturb(cl)
    /\ UNCHANGED <<now, relayVars, tokens, get, collide, histVars, probe, sh, wait, conc, gen, touch, lg>>

(* -------------------------- Decryptor: memory -------------------------- *)
\* what the bytes of a buffer hold: none (never allocated), zeros, an AES key, or
\* the plaintext token pt
Buffer(kind, pt) == [kind |-> kind, pt |-> pt]
Unallocated == Buffer("none", 0)
Zeroed == Buffer("zeros", 0)

\* a string variable: var = what it reads, bytes = the array it was made over
String(var, bytes) == [var |-> var, bytes |-> bytes]

\* secureWipeBytes: every byte of the slice is set to 0
secureWipeBytes(b) == IF b = Unallocated THEN b ELSE Zeroed

\* secureWipeString: the loop over the string assigns nothing (`_ = i`), then the
\* variable is set to ""; the bytes it was made over stay as they were
secureWipeString(s) == String("", s.bytes)

\* the buffers decryptHybridToken allocated, as they are when it returns:
\* aesKeyBytes (wiped by the deferred secureWipeBytes once it was unwrapped),
\* decryptedBytes (the result of gcm.Open, nothing writes to it afterwards) and the
\* string returned, which string(decryptedBytes) copies
decryptHybridTokenHeap(e, key) ==
    LET d == decryptHybridToken(e, key)
        unwrapped == d.err \in {ErrAES, ErrGCM, ErrPlainShort, ErrPlainLong, ""}
        opened == d.err \in {ErrPlainShort, ErrPlainLong, ""}
    IN [aesKeyBytes |-> IF unwrapped THEN secureWipeBytes(Buffer("key", 0))
                        ELSE Unallocated,
        decryptedBytes |-> IF opened THEN Buffer("plaintext", e.pt) ELSE Unallocated,
        decryptedToken |-> IF d.err = "" THEN String("token", Buffer("plaintext", e.pt))
                           ELSE String("", Unallocated)]
NoHeap ==
    [aesKeyBytes |-> Unallocated, decryptedBytes |-> Unallocated,
     decryptedToken |-> String("", Unallocated)]

\* the buffers when sendFCMNotification returns: secureWipeString runs after
\* messagingClient.Send, whatever Send answered
sendFCMNotificationHeap(e, fcmok) ==
    LET h == decryptHybridTokenHeap(e, privateKey) IN
    IF decryptHybridToken(e, privateKey).err # "" THEN h
    ELSE [h EXCEPT !.decryptedToken = secureWipeString(h.decryptedToken)]

\* the buffers when handleNotify has answered
handleNotifyHeap(method, json, e, title, body, fcmok) ==
    IF handleNotify(method, json, e, title, body, fcmok).status
           \in {StatusOK, StatusInternalServerError}
    THEN sendFCMNotificationHeap(e, fcmok)
    ELSE NoHeap

\* the buffers when handleRegister has answered: secureWipeString is called after
\* the two length checks of the decrypted token, on the way to the store only
handleRegisterHeap(method, json, e) ==
    LET r == handleRegisterReply(method, json, e)
        h == decryptHybridTokenHeap(e, privateKey)
    IN IF r.status = StatusOK
       THEN [h EXCEPT !.decryptedToken = secureWipeString(h.decryptedToken)]
       ELSE IF r.message \in {"Invalid encrypted token", "Decrypted token too short",
                              "Decrypted token too long"}
       THEN h
       ELSE NoHeap

(* ------------------- HybridCipher: envelopes on the wire --------------- *)
\* the plaintext tokens a client encrypts: MaxPlain contents of each length
PlainLens == {0, 1, 9, 10, 39, 1000, 1001, 2000, 2001}
Plaintexts == {[pt |-> p, len |-> l] : p \in 1..MaxPlain, l \in PlainLens}

\* what decryption without authentication makes of a damaged ciphertext
Garbled(pt) == pt + 100

\* the length field after one of its bits is inverted
FlipLength(klen, bit) ==
    IF (klen \div 2^bit) % 2 = 1 THEN klen - 2^bit ELSE klen + 2^bit
LengthBits == {0, 8, 9, 30}

\* the parts of an envelope
Regions == {"nonce", "length", "wrapped", "ciphertext", "tag"}

\* the envelopes that differ from e in one bit of the region. The sign bit of the
\* length field is drawn with the value a build with 32-bit int reads; a build with
\* 64-bit int reads a length larger than that of bit 30.
Flipped(e, region) ==
    CASE region = "nonce" -> {[e EXCEPT !.tag = FALSE, !.pt = Garbled(e.pt)]}
      [] region = "ciphertext" ->
            IF e.ptlen = 0 THEN {} ELSE {[e EXCEPT !.tag = FALSE, !.pt = Garbled(e.pt)]}
      [] region = "tag" -> {[e EXCEPT !.tag = FALSE]}
      [] region = "wrapped" ->
            {[e EXCEPT !.wrap = "corrupt", !.junk = j, !.pt = Garbled(e.pt)] : j \in Junk}
      [] region = "length" ->
            {[e EXCEPT !.klen = FlipLength(e.klen, b)] : b \in LengthBits}
            \cup {[e EXCEPT !.klen = (e.klen - 2^30) - 2^30]}

\* the envelopes that are a prefix of e
Truncated(e) ==
    {[e EXCEPT !.raw = r, !.n = B64Len(r), !.tag = FALSE, !.pt = Garbled(e.pt)] :
        r \in {e.raw - 1, HeaderLen + e.klen, HeaderLen + e.klen - 1, 30}}

\* a text that is no envelope: n characters that decode to raw bytes (the decoder
\* skips line breaks, so raw may be small), the length field read from "aaaa..."
Text(n, b64, raw) == Envelope(n, b64, raw, 1772526185, "none", 0, FALSE, 0, 0)
TextLens == {0, 50, 99, 100, 10000, 10001}
TextInputs ==
    {Text(n, FALSE, 0) : n \in TextLens \ {0}}
    \cup {Text(n, TRUE, (n \div 4) * 3) : n \in {m \in TextLens : m % 4 = 0}}
    \cup {Text(n, TRUE, 12) : n \in {m \in TextLens : m >= 16}}

NoResult == [err |-> "not called", token |-> 0, tokenlen |-> 0, slices |-> <<>>]

\* one envelope under test: step = how it was made, env = the envelope, pub = the
\* key it was sealed for, pt, ptlen = the plaintext sealed, region = the part
\* damaged, op = what was called on it, key = the private key of the Decryptor,
\* method, json, title, fcmok = the rest of the request, res = the result of
\* decryptHybridToken, reply = the answer of the handler, heap = the buffers the
\* call left behind
ProbeIdle ==
    [step |-> "idle", env |-> EmptyText, pub |-> "", pt |-> 0, ptlen |-> 0,
     region |-> "none", op |-> "none", key |-> privateKey, method |-> "", json |-> FALSE,
     title |-> "", fcmok |-> FALSE, res |-> NoResult, reply |-> NoReply,
     heap |-> NoHeap]

cipherRest == <<now, relayVars, storeVars, get, cl, collide, histVars, dl, sh, wait, conc,
               gen, touch, lg>>

\* a client seals a plaintext for a public key; what the wrapped key is to an
\* unrelated private key depends on the random key and padding of the call
CipherEncrypt ==
    /\ probe.step = "idle"
    /\ \E P \in Plaintexts, key \in Keys, j \in Junk :
         probe' = [ProbeIdle EXCEPT !.step = "sealed", !.pub = key.id, !.pt = P.pt,
                       !.ptlen = P.len,
                       !.env = [encryptTokenHybrid(P.pt, P.len, key) EXCEPT !.junk = j]]
    /\ UNCHANGED cipherRest

\* one bit of the sealed envelope is inverted on the way
CipherFlip ==
    /\ probe.step = "sealed" /\ probe.op = "none"
    /\ \E region \in Regions : \E e \in Flipped(probe.env, region) :
         probe' = [probe EXCEPT !.step = "flipped", !.region = region, !.env = e]
    /\ UNCHANGED cipherRest

\* the sealed envelope is cut short on the way
CipherTruncate ==
    /\ probe.step = "sealed" /\ probe.op = "none"
    /\ \E e \in Truncated(probe.env) :
         probe' = [probe EXCEPT !.step = "truncated", !.region = "end", !.env = e]
    /\ UNCHANGED cipherRest

\* a client sends a text that is no envelope
CipherText ==
    /\ probe.step = "idle"
    /\ \E t \in TextInputs : probe' = [ProbeIdle EXCEPT !.step = "text", !.env = t]
    /\ UNCHANGED cipherRest

\* decryptHybridToken is called on the envelope, with key as the loaded private key
CipherDecrypt ==
    /\ probe.step # "idle" /\ probe.op = "none"
    /\ \E key \in Keys :
         probe' = [probe EXCEPT !.op = "decrypt", !.key = key,
                                !.res = decryptHybridToken(probe.env, key),
                                !.heap = decryptHybridTokenHeap(probe.env, key)]
    /\ UNCHANGED cipherRest

\* the envelope is the encrypted_data of a request to handleRegister
CipherRegister ==
    /\ probe.step # "idle" /\ probe.op = "none"
    /\ \E method \in Methods, json \in BOOLEAN :
         probe' = [probe EXCEPT !.op = "register", !.method = method, !.json = json,
                                !.res = decryptHybridToken(probe.env, privateKey),
                                !.reply = handleRegisterReply(method, json, probe.env),
                                !.heap = handleRegisterHeap(method, json, probe.env)]
    /\ UNCHANGED cipherRest

\* the envelope is the encrypted_data of a request to handleNotify
CipherNotify ==
    /\ probe.step # "idle" /\ probe.op = "none"
    /\ \E method \in Methods, json, fcmok \in BOOLEAN, title \in {"", "App Notification"} :
         probe' = [probe EXCEPT !.op = "notify", !.method = method, !.json = json,
                                !.title = title, !.fcmok = fcmok,
                                !.res = decryptHybridToken(probe.env, privateKey),
                                !.reply = handleNotify(method, json, probe.env, title,
                                                       "hello", fcmok),
                                !.heap = handleNotifyHeap(method, json, probe.env, title,
                                                          "hello", fcmok)]
    /\ UNCHANGED cipherRest

(* ------------------ two instances on one bucket ------------------------ *)
\* the identifiers registered in the shared bucket
MaxShared == 2
SharedIds == {OpaqueID(n) : n \in 1..MaxShared}

\* ComputePublicKeyHash of the public key of a second deployment: the hex digest of
\* another PEM text
otherKeyHash == "hashB"
Hashes == {publicKeyHash, otherKeyHash}

\* ExoscaleStorage.ListAllTokens of the instance with the hash: the records of the
\* keys ListObjectsV2 lists under hash + "/", every GetObject having succeeded
ListAllTokens(b, hash) ==
    LET keys == ListObjectsV2(b, hash) IN [i \in 1..Len(keys) |-> b[keys[i]]]

\* ExoscaleStorage.CleanupOldTokens of the instance with the hash, every call to the
\* bucket having succeeded: the bucket it leaves
CleanupOldTokens(b, hash, maxAge, t) ==
    LET listed == ListAllTokens(b, hash)
        old == {buildObjectKey(hash, listed[i].opaque_id) :
                   i \in {j \in 1..Len(listed) : Before(listed[j].last_used_at, t - maxAge)}}
    IN [k \in DOMAIN b \ old |-> b[k]]

\* ExoscaleStorage.GetToken of the instance with the hash, every call to the bucket
\* having succeeded: the record returned (NoInfo: an error) and the bucket it leaves
InstanceGetToken(b, hash, opaqueID, t) ==
    LET key == buildObjectKey(hash, opaqueID) IN
    IF key \in DOMAIN b
    THEN [info |-> Touched(b[key], t),
          bucket |-> updateLastUsed(b, hash, opaqueID, Touched(b[key], t))]
    ELSE [info |-> NoInfo, bucket |-> b]

\* one call of an instance: inst = its hash, op = the method, id = its argument,
\* before = the bucket when it was called, seen = the records it returned
ShIdle == [inst |-> "", op |-> "none", id |-> NoID, before |-> EmptyMap, seen |-> {}]

SharedCall(hash, op, id, seen) ==
    sh' = [inst |-> hash, op |-> op, id |-> id, before |-> bucket, seen |-> seen]

sharedRest == <<now, relayVars, tokens, get, cl, collide, histVars, dl, probe, wait, conc,
               gen, touch, lg>>

SharedStoreToken ==
    /\ \E hash \in Hashes, id \in SharedIds :
         /\ bucket' = StoreToken(bucket, hash, id, Env(1), PlatformOf(1), now)
         /\ SharedCall(hash, "StoreToken", id, {})
    /\ UNCHANGED sharedRest

SharedGetToken ==
    /\ \E hash \in Hashes, id \in SharedIds :
         LET got == InstanceGetToken(bucket, hash, id, now) IN
         /\ bucket' = got.bucket
         /\ SharedCall(hash, "GetToken", id, {got.info} \ {NoInfo})
    /\ UNCHANGED sharedRest

SharedDeleteToken ==
    /\ \E hash \in Hashes, id \in SharedIds :
         /\ bucket' = DeleteToken(bucket, hash, id)
         /\ SharedCall(hash, "DeleteToken", id, {})
    /\ UNCHANGED sharedRest

SharedListAllTokens ==
    /\ \E hash \in Hashes :
         LET listed == ListAllTokens(bucket, hash) IN
         SharedCall(hash, "ListAllTokens", NoID, {listed[i] : i \in 1..Len(listed)})
    /\ UNCHANGED bucket
    /\ UNCHANGED sharedRest

SharedCleanupOldTokens ==
    /\ \E hash \in Hashes, maxAge \in 1..MaxAgeBound :
         /\ bucket' = CleanupOldTokens(bucket, hash, maxAge, now)
         /\ SharedCall(hash, "CleanupOldTokens", NoID, {})
    /\ UNCHANGED sharedRest

(* ------------------ Relay: TokenStore, concurrent callers -------------- *)
\* the goroutines that call the TokenStore at the same time
MaxGo == 2
Goroutines == 1..MaxGo

\* a lock that is granted while another goroutine holds it
TryLockUnguarded(mu) == TRUE

\* sync.RWMutex.Lock is granted when no goroutine holds the lock (mu = 0)
TryLock(mu) == mu = 0

\* one caller of AddTokenID: pc = idle, lock (at ts.mu.Lock()), load, store (the
\* two halves of the map assignment), unlock (at the deferred ts.mu.Unlock());
\* id = its argument; map = the map as it read it (kept until it returns)
GoIdle == [pc |-> "idle", id |-> NoID, map |-> EmptyMap]

\* mu = the goroutine that holds the write lock (0: none), th = the callers, called
\* = the identifiers AddTokenID has returned for, seen = what the last GetTokenIDs
\* and Count returned
ConcIdle ==
    [mu |-> 0, th |-> [g \in Goroutines |-> GoIdle], called |-> {},
     seen |-> [ids |-> {}, count |-> 0]]

concRest == <<now, reg, bc, storeVars, get, cl, collide, histVars, dl, probe, sh, wait,
             gen, touch, lg>>

\* a goroutine calls AddTokenID(tokenID)
AddTokenIDCall(g) ==
    /\ conc.th[g].pc = "idle"
    /\ \E tokenID \in OpaqueIDs :
         conc' = [conc EXCEPT !.th[g] = [GoIdle EXCEPT !.pc = "lock", !.id = tokenID]]
    /\ UNCHANGED tokenIDs
    /\ UNCHANGED concRest

\* ts.mu.Lock()
AddTokenIDLock(g) ==
    /\ conc.th[g].pc = "lock"
    /\ TryLock(conc.mu)
    /\ conc' = [conc EXCEPT !.mu = g, !.th[g].pc = "load"]
    /\ UNCHANGED tokenIDs
    /\ UNCHANGED concRest

\* ts.tokenIDs[tokenID] = time.Now(): the map is read
AddTokenIDLoad(g) ==
    /\ conc.th[g].pc = "load"
    /\ conc' = [conc EXCEPT !.th[g].pc = "store", !.th[g].map = tokenIDs]
    /\ UNCHANGED tokenIDs
    /\ UNCHANGED concRest

\* ts.tokenIDs[tokenID] = time.Now(): the map with the entry is written
AddTokenIDStore(g) ==
    /\ conc.th[g].pc = "store"
    /\ tokenIDs' = AddTokenID(conc.th[g].map, conc.th[g].id, now)
    /\ conc' = [conc EXCEPT !.th[g].pc = "unlock"]
    /\ UNCHANGED concRest

\* the deferred ts.mu.Unlock(); AddTokenID returns
AddTokenIDUnlock(g) ==
    /\ conc.th[g].pc = "unlock"
    /\ conc' = [conc EXCEPT !.mu = IF conc.mu = g THEN 0 ELSE conc.mu,
                            !.th[g] = GoIdle,
                            !.called = conc.called \cup {conc.th[g].id}]
    /\ UNCHANGED tokenIDs
    /\ UNCHANGED concRest

\* GetTokenIDs and Count, each under ts.mu.RLock(), which waits for the writer
ReadTokenStore ==
    /\ TryLock(conc.mu)
    /\ conc' = [conc EXCEPT !.seen = [ids |-> GetTokenIDs(tokenIDs),
                                      count |-> Count(tokenIDs)]]
    /\ UNCHANGED tokenIDs
    /\ UNCHANGED concRest

(* ------------------------- external calls ------------------------------ *)
\* the handlers that call out: the Relay's handleRegister (http.Post to /register)
\* and handleSendAll (one http.Post to /notify per identifier), the Decryptor's
\* handleNotify (messagingClient.Send) and handleRegister (StoreToken)
Handlers == {"relay.register", "relay.send-all", "decryptor.notify", "decryptor.register"}

\* the time limit of the context the Decryptor hands to the storage calls, in ticks
StorageTimeout == 1

\* the time limit a handler's external call carries, 0 = none: http.Post uses
\* http.DefaultClient, whose Timeout is the zero value; messagingClient.Send gets
\* context.Background(), which has no deadline
CallTimeout(h) ==
    CASE h = "relay.register" -> 0
      [] h = "relay.send-all" -> 0
      [] h = "decryptor.notify" -> 0
      [] h = "decryptor.register" -> StorageTimeout

\* one handler: pc = idle, waiting (inside an external call) or done (it answered);
\* left = the calls it has still to make, this one included; timeout = the limit
\* of the call in flight; failed = the calls that failed; status = its answer
WaitIdle == [pc |-> "idle", left |-> 0, timeout |-> 0, failed |-> 0, status |-> 0]

\* the handler after one of its calls returned
AfterCall(w, h, ok) ==
    LET failed == IF ok THEN w.failed ELSE w.failed + 1 IN
    IF w.left > 1
    THEN [w EXCEPT !.left = w.left - 1, !.failed = failed]
    ELSE [w EXCEPT !.pc = "done", !.left = 0, !.failed = failed,
                   !.status = IF h = "relay.send-all" THEN StatusSeeOther
                              ELSE IF failed = 0 THEN StatusOK
                              ELSE StatusInternalServerError]

waitRest == <<now, relayVars, storeVars, get, cl, collide, histVars, dl, probe, sh, conc,
             gen, touch, lg>>

\* a handler takes a request and makes its first external call
HandlerCall(h) ==
    /\ wait[h].pc \in {"idle", "done"}
    /\ \E n \in 1..(IF h = "relay.send-all" THEN MaxIds ELSE 1) :
         wait' = [wait EXCEPT ![h] = [WaitIdle EXCEPT !.pc = "waiting", !.left = n,
                                                      !.timeout = CallTimeout(h)]]
    /\ UNCHANGED waitRest

\* the callee answers, or the connection fails
CalleeAnswers(h) ==
    /\ wait[h].pc = "waiting"
    /\ \E ok \in BOOLEAN : wait' = [wait EXCEPT ![h] = AfterCall(wait[h], h, ok)]
    /\ UNCHANGED waitRest

\* the time limit of the call in flight runs out: the call returns an error
CallDeadline(h) ==
    /\ wait[h].pc = "waiting"
    /\ wait[h].timeout > 0
    /\ wait' = [wait EXCEPT ![h] = AfterCall(wait[h], h, FALSE)]
    /\ UNCHANGED waitRest

(* --------------------- Decryptor: generateOpaqueID --------------------- *)
\* bytes := make([]byte, 32)
OpaqueIDBytes == 32
\* largest stride of the byte strings the random source is drawn from
MaxStride == 1
Bytes == 0..255
\* the outcomes of the random source: the byte strings first, first + stride, ...
\* (mod 256), which put every byte value at every position
RandomBytes(first, stride) == [i \in 1..OpaqueIDBytes |-> (first + (i - 1) * stride) % 256]

\* encoding/hex: const hextable = "0123456789abcdef"
hextable == <<"0", "1", "2", "3", "4", "5", "6", "7", "8", "9", "a", "b", "c", "d", "e", "f">>
HexDigits == {hextable[i] : i \in 1..16}

RECURSIVE EncodeToStringShort(_)
\* an encoding that writes a byte below 16 as one digit (the verb %x of each byte)
EncodeToStringShort(src) ==
    IF src = <<>> THEN <<>>
    ELSE (IF Head(src) < 16 THEN <<hextable[Head(src) + 1]>>
          ELSE <<hextable[(Head(src) \div 16) + 1], hextable[(Head(src) % 16) + 1]>>)
         \o EncodeToStringShort(Tail(src))

\* hex.EncodeToString: dst[2j] = hextable[v>>4], dst[2j+1] = hextable[v&0x0f]
EncodeToString(src) ==
    [j \in 1..(2 * Len(src)) |->
        IF j % 2 = 1 THEN hextable[(src[(j + 1) \div 2] \div 16) + 1]
        ELSE hextable[(src[j \div 2] % 16) + 1]]

GenIdle == [pc |-> "idle", bytes |-> <<>>, id |-> <<>>]
genRest == <<now, relayVars, storeVars, get, cl, collide, histVars, dl, probe, sh, wait, conc,
             touch, lg>>

\* generateOpaqueID: the loop bytes[i] = byte(rand.Intn(256))
GenerateFill ==
    /\ gen.pc \in {"idle", "done"}
    /\ \E first \in Bytes, stride \in 0..MaxStride :
         gen' = [pc |-> "filled", bytes |-> RandomBytes(first, stride), id |-> <<>>]
    /\ UNCHANGED genRest

\* generateOpaqueID: return hex.EncodeToString(bytes)
GenerateEncode ==
    /\ gen.pc = "filled"
    /\ gen' = [gen EXCEPT !.pc = "done", !.id = EncodeToString(gen.bytes)]
    /\ UNCHANGED genRest

(* ------------- Decryptor: GetToken calls on the same record ------------ *)
\* goroutines calling GetToken at the same time
MaxTouch == 2
Touchers == 1..MaxTouch
\* the identifier they all resolve
touchID == OpaqueID(1)

\* a GetToken that fails when the write-back fails
GetTokenReturnStrict(info, putok) ==
    IF putok THEN [info |-> info, err |-> ""]
    ELSE [info |-> NoInfo, err |-> "failed to update last used time"]

\* GetToken after updateLastUsed: a failed write-back is logged, "return &info, nil"
GetTokenReturn(info, putok) == [info |-> info, err |-> ""]

\* one GetToken call: before = the record GetObject read, info = the record the call
\* holds, warned = the warning of a failed write-back was logged, ret = what it returned
TouchIdle ==
    [pc |-> "idle", before |-> NoInfo, info |-> NoInfo, warned |-> FALSE,
     ret |-> [info |-> NoInfo, err |-> ""]]
touchRest == <<now, relayVars, tokens, get, collide, histVars, dl, probe, sh, wait, conc,
               gen, lg>>

\* a registration has stored the record: StoreToken under a fresh identifier
TouchStore ==
    /\ IsUnique(bucket, touchID)
    /\ bucket' = StoreToken(bucket, publicKeyHash, touchID, Env(1), PlatformOf(1), now)
    /\ cl' = Disturb(cl)
    /\ UNCHANGED <<touch, touchRest>>

\* GetToken: GetObject, decode, info.LastUsedAt = time.Now()
TouchRead(t) ==
    /\ touch[t].pc \in {"idle", "done"}
    /\ \E getok \in BOOLEAN :
         LET got == GetToken(bucket, touchID, getok) IN
         touch' = [touch EXCEPT ![t] =
             IF got.err # ""
             THEN [TouchIdle EXCEPT !.pc = "done", !.ret = got]
             ELSE [TouchIdle EXCEPT !.pc = "read", !.before = got.info,
                                    !.info = Touched(got.info, now)]]
    /\ cl' = Disturb(cl)
    /\ UNCHANGED <<bucket, touchRest>>

\* GetToken: updateLastUsed puts the record the call holds, then the return
TouchUpdate(t) ==
    /\ touch[t].pc = "read"
    /\ \E putok \in BOOLEAN :
         /\ bucket' = IF putok
                      THEN updateLastUsed(bucket, publicKeyHash, touchID, touch[t].info)
                      ELSE bucket
         /\ touch' = [touch EXCEPT ![t].pc = "done", ![t].warned = ~putok,
                                   ![t].ret = GetTokenReturn(touch[t].info, putok)]
    /\ cl' = Disturb(cl)
    /\ UNCHANGED touchRest

(* ----------------- log previews of opaque identifiers ------------------ *)
\* the lengths of the identifier a caller hands over: every non-empty string up to
\* the length of a generated identifier
IdLens == 1..(2 * OpaqueIDBytes)
\* tokenID[:8], tokenID[len(tokenID)-8:]
RelayPreview(n) == << <<0, 8>>, <<n - 8, n>> >>
\* opaqueID[:16]
StoragePreview(n) == << <<0, 16>> >>
\* a slice expression s[low:high] on a string of n bytes panics unless
\* 0 <= low <= high <= n
SlicePanics(slices, n) ==
    \E i \in 1..Len(slices) :
        ~(0 <= slices[i][1] /\ slices[i][1] <= slices[i][2] /\ slices[i][2] <= n)

\* one operation on an identifier of len bytes: done = the effect of the operation
\* took place (the map entry, the object put or deleted), slices = the slice
\* expressions it evaluated afterwards, panic = one of them was out of range
LgIdle == [op |-> "none", len |-> 0, done |-> FALSE, slices |-> <<>>, panic |-> FALSE]
LgCall(op, n, done, slices) ==
    lg' = [op |-> op, len |-> n, done |-> done, slices |-> slices,
           panic |-> SlicePanics(slices, n)]
lgRest == <<now, relayVars, storeVars, get, cl, collide, histVars, dl, probe, sh, wait, conc,
            gen, touch>>

\* TokenStore.AddTokenID: the map assignment, then the log line
LogAddTokenID ==
    /\ \E n \in IdLens : LgCall("AddTokenID", n, TRUE, RelayPreview(n))
    /\ UNCHANGED lgRest

\* handleSendAll: the log line of a failed sendNotificationToBackend
LogSendAll ==
    /\ \E n \in IdLens, ok \in BOOLEAN :
         LgCall("handleSendAll", n, ok, IF ok THEN <<>> ELSE RelayPreview(n))
    /\ UNCHANGED lgRest

\* StoreToken: the log line after a successful PutObject
LogStoreToken ==
    /\ \E n \in IdLens, putok \in BOOLEAN :
         LgCall("StoreToken", n, putok, IF putok THEN StoragePreview(n) ELSE <<>>)
    /\ UNCHANGED lgRest

\* GetToken: the warning after a failed updateLastUsed
LogGetToken ==
    /\ \E n \in IdLens, putok \in BOOLEAN :
         LgCall("GetToken", n, putok, IF putok THEN <<>> ELSE StoragePreview(n))
    /\ UNCHANGED lgRest

\* DeleteToken: the log line after a successful DeleteObject
LogDeleteToken ==
    /\ \E n \in IdLens, delok \in BOOLEAN :
         LgCall("DeleteToken", n, delok, IF delok THEN StoragePreview(n) ELSE <<>>)
    /\ UNCHANGED lgRest

\* CleanupOldTokens: the log line for an expired token, deleted or not
LogCleanupOldTokens ==
    /\ \E n \in IdLens, delok \in BOOLEAN :
         LgCall("CleanupOldTokens", n, delok,
                IF delok THEN StoragePreview(n) \o StoragePreview(n) ELSE StoragePreview(n))
    /\ UNCHANGED lgRest

(* ------------------------------- clock --------------------------------- *)
Tick ==
    /\ now < MaxTime
    /\ now' = now + 1
    /\ UNCHANGED <<relayVars, storeVars, get, cl, collide, histVars>>
    /\ UNCHANGED auxVars

(* --------------------------- specifications ---------------------------- *)
InitState ==
    /\ now = 0
    /\ tokenIDs = EmptyMap
    /\ tokens = EmptyMap
    /\ bucket = EmptyMap
    /\ reg = [r \in Regs |-> RegIdle]
    /\ bc = BcIdle
    /\ get = [g \in Gets |-> GetIdle]
    /\ cl = ClIdle
    /\ used = {}
    /\ returned = {}
    /\ registered = EmptyMap
    /\ evicted = {}
    /\ dl = DlIdle
    /\ probe = ProbeIdle
    /\ sh = ShIdle
    /\ wait = [h \in Handlers |-> WaitIdle]
    /\ conc = ConcIdle
    /\ gen = GenIdle
    /\ touch = [t \in Touchers |-> TouchIdle]
    /\ lg = LgIdle

Init == InitState /\ collide = FALSE

InitCollide == InitState /\ collide = TRUE

\* the register and broadcast protocol between the Relay and the Decryptor
Next ==
    \/ \E r \in Regs : RelayRegister(r)
    \/ \E r \in Regs : RelayRegisterFinish(r)
    \/ BroadcastStart
    \/ BroadcastSend
    \/ DeleteTokenCall

Spec == Init /\ [][Next]_vars

SpecCollide == InitCollide /\ [][Next]_vars

\* the registry under concurrent GetToken calls
NextStore ==
    \/ DecryptorRegister
    \/ \E g \in Gets : GetTokenRead(g)
    \/ \E g \in Gets : GetTokenUpdate(g)
    \/ DeleteTokenCall
    \/ Tick

SpecStore == Init /\ [][NextStore]_vars

\* the registry under the cleanup routine
NextCleanup ==
    \/ DecryptorRegister
    \/ DeleteTokenCall
    \/ CleanupStart
    \/ CleanupFetch
    \/ CleanupCutoff
    \/ CleanupDelete
    \/ Tick

SpecCleanup == Init /\ [][NextCleanup]_vars

\* single delivery requests against the registry
NextDeliver ==
    \/ DecryptorRegister
    \/ SendNotification
    \/ DeleteTokenCall

SpecDeliver == Init /\ [][NextDeliver]_vars

\* the cipher and the two endpoints that take an envelope, on envelopes of all kinds
NextCipher ==
    \/ CipherEncrypt
    \/ CipherFlip
    \/ CipherTruncate
    \/ CipherText
    \/ CipherDecrypt
    \/ CipherRegister
    \/ CipherNotify

SpecCipher == Init /\ [][NextCipher]_vars

\* two storage instances with different public-key hashes on one bucket
NextShared ==
    \/ SharedStoreToken
    \/ SharedGetToken
    \/ SharedDeleteToken
    \/ SharedListAllTokens
    \/ SharedCleanupOldTokens
    \/ Tick

SpecShared == Init /\ [][NextShared]_vars

\* the Relay's TokenStore called by several goroutines at once
NextTokenStore ==
    \/ \E g \in Goroutines : AddTokenIDCall(g)
    \/ \E g \in Goroutines : AddTokenIDLock(g)
    \/ \E g \in Goroutines : AddTokenIDLoad(g)
    \/ \E g \in Goroutines : AddTokenIDStore(g)
    \/ \E g \in Goroutines : AddTokenIDUnlock(g)
    \/ ReadTokenStore
    \/ Tick

SpecTokenStore == Init /\ [][NextTokenStore]_vars

\* the handlers and the calls they wait for. A callee may never answer; a time
\* limit that was set does run out.
NextWait ==
    \/ \E h \in Handlers : HandlerCall(h)
    \/ \E h \in Handlers : CalleeAnswers(h)
    \/ \E h \in Handlers : CallDeadline(h)

SpecWait == Init /\ [][NextWait]_vars /\ \A h \in Handlers : WF_vars(CallDeadline(h))

\* generateOpaqueID on the outcomes of the random source
NextGenerate ==
    \/ GenerateFill
    \/ GenerateEncode

SpecGenerate == Init /\ [][NextGenerate]_vars

\* GetToken calls of several goroutines on one record, and the cleanup routine
NextTouch ==
    \/ TouchStore
    \/ \E t \in Touchers : TouchRead(t)
    \/ \E t \in Touchers : TouchUpdate(t)
    \/ CleanupStart
    \/ CleanupFetch
    \/ CleanupCutoff
    \/ CleanupDelete
    \/ Tick

SpecTouch == Init /\ [][NextTouch]_vars

\* the operations that log a preview of an identifier, on identifiers of every length
NextLog ==
    \/ LogAddTokenID
    \/ LogSendAll
    \/ LogStoreToken
    \/ LogGetToken
    \/ LogDeleteToken
    \/ LogCleanupOldTokens

SpecLog == Init /\ [][NextLog]_vars

(* ------------------------------- claims -------------------------------- *)

HeldIds ==
    DOMAIN tokenIDs
    \cup {reg[r].resp.token_id : r \in {x \in Regs : reg[x].pc = "responded"
                                                     /\ reg[x].resp.token_id # NoID}}

StoreDecrypts ==
    /\ \A token \in DOMAIN tokens : Decrypts(token)
    /\ \A key \in DOMAIN bucket : Decrypts(bucket[key].encrypted_data)

\* the Decryptor answered worker r's request with a rejection in this step
Rejected(r) ==
    /\ reg[r].pc # "responded"
    /\ reg'[r].pc = "responded"
    /\ reg'[r].resp.status # StatusOK

C4_EvictedIsTerminal ==
    \A id \in evicted : ~Stored(id)

\* C5: a finished registration is never "maybe registered": the client was answered
\* success and the record is stored under an identifier, or the client was answered
\* a rejection and no record was stored for the request.
C5_NoMaybeRegistered ==
    \A r \in Regs :
        reg[r].pc = "done" =>
            IF reg[r].out.success THEN reg[r].stored # NoID ELSE reg[r].stored = NoID

\* the forward of worker r's request fails in this step
ForwardFails(r) ==
    /\ reg[r].pc = "responded"
    /\ reg'[r].pc = "done"
    /\ \/ reg'[r].fault # "none"
       \/ reg[r].resp.status # StatusOK
       \/ ~reg[r].resp.success
       \/ reg[r].resp.token_id = NoID

Fixed(info) ==
    <<info.opaque_id, info.encrypted_data, info.platform, info.registered_at>>

\* C7: GetToken returns the envelope as it was registered and changes nothing in the
\* record but last_used_at: opaque_id, encrypted_data, platform and registered_at of
\* the stored record and of the returned record are those of the registration.
C7_GetTokenKeepsRecord ==
    /\ \A id \in OpaqueIDs :
         Stored(id) => Fixed(bucket[ObjectKey(id)]) = Fixed(registered[id])
    /\ \A g \in Gets :
         (get[g].pc = "read" \/ (get[g].pc = "done" /\ get[g].result = "ok"))
            => Fixed(get[g].info) = Fixed(registered[get[g].id])

\* a GetToken has returned a record and its write-back moved last_used_at
C7_Witness ==
    \E g \in Gets :
        /\ get[g].pc = "done"
        /\ get[g].result = "ok"
        /\ Stored(get[g].id)
        /\ bucket[ObjectKey(get[g].id)].last_used_at
               > bucket[ObjectKey(get[g].id)].registered_at

QuietPass ==
    /\ cl.pc = "done"
    /\ ~cl.err
    /\ cl.quiet
    /\ Len(cl.tokens) = cl.listed
    /\ \A i \in 1..Len(cl.attempts) : cl.attempts[i].ok

\* C9: after a CleanupOldTokens pass with no concurrent operation and no failing
\* delete, exactly the records with last_used_at strictly before the cutoff are
\* absent; every other record is present and unmodified.
C9_CleanupRemovesExactlyExpired ==
    QuietPass =>
        /\ DOMAIN bucket \subseteq DOMAIN cl.before
        /\ \A key \in DOMAIN cl.before :
             IF Before(cl.before[key].last_used_at, cl.cutoff)
             THEN key \notin DOMAIN bucket
             ELSE key \in DOMAIN bucket /\ bucket[key] = cl.before[key]

\* the records a pass listed that are older than its cutoff
Expired(c) == SelectSeq(c.tokens, LAMBDA t : Before(t.last_used_at, c.cutoff))

\* C10: at the end of a CleanupOldTokens pass every listed expired record was
\* attempted exactly once, in order, whether or not an earlier delete failed, and
\* the returned count is the number of deletes that succeeded.
C10_FailedDeleteDoesNotAbort ==
    (cl.pc = "done" /\ ~cl.err) =>
        /\ [i \in 1..Len(cl.attempts) |-> cl.attempts[i].id]
              = [i \in 1..Len(Expired(cl)) |-> Expired(cl)[i].opaque_id]
        /\ cl.deleted = Cardinality({i \in 1..Len(cl.attempts) : cl.attempts[i].ok})

\* a pass ended whose first delete failed and whose second delete succeeded
C10_Witness ==
    /\ cl.pc = "done"
    /\ Len(cl.attempts) = 2
    /\ ~cl.attempts[1].ok
    /\ cl.attempts[2].ok
    /\ cl.deleted = 1


C12_Counted ==
    /\ bc.ids \subseteq bc.snapshot
    /\ bc.sent + bc.errors = Cardinality(bc.snapshot \ bc.ids)
    /\ (bc.pc = "sending") => bc.ids # {}
    /\ (bc.status = StatusSeeOther) =>
          /\ bc.ids = {}
          /\ bc.sent + bc.errors = Cardinality(bc.snapshot)

\* every iteration of the loop tries one identifier it has not tried yet
C12_OneAtATime ==
    (bc.pc = "sending" /\ bc' # bc) =>
        \E tokenID \in bc.ids :
           /\ bc'.ids = bc.ids \ {tokenID}
           /\ bc'.snapshot = bc.snapshot
           /\ bc'.sent + bc'.errors = bc.sent + bc.errors + 1

\* C12: a broadcast calls the Decryptor once for every identifier of the snapshot
\* it took of the index: every iteration takes one identifier it has not tried yet
\* and counts it as sent or as failed, a failure leaves the remaining identifiers
\* in the loop, and the redirect reports counts that add up to the snapshot's size.
C12_BroadcastTriesEveryId == []C12_Counted /\ [][C12_OneAtATime]_vars

\* a broadcast over three identifiers ended with both failures and successes
C12_Witness ==
    /\ bc.pc = "done" /\ bc.status = StatusSeeOther
    /\ Cardinality(bc.snapshot) = MaxIds
    /\ bc.errors >= 1 /\ bc.sent >= 1


Registrable(data) ==
    LET d == decryptHybridToken(EnvOf(data), privateKey) IN
    d.err = "" /\ d.tokenlen >= MinTokenLen /\ d.tokenlen <= MaxTokenLen

\* the Decryptor's part of C13: the request arrived as the client sent it, and the
\* answer is success with the identifier the record was stored under, unless the
\* store refused the write (status 500)
C13_DecryptorAnswers ==
    \A r \in Regs :
       (reg[r].pc = "responded" /\ Registrable(reg[r].data)) =>
          /\ reg[r].resp.status \in {StatusOK, StatusInternalServerError}
          /\ (reg[r].resp.status = StatusOK) =>
                /\ reg[r].resp.success
                /\ reg[r].resp.token_id # NoID
                /\ reg[r].resp.token_id \in DOMAIN registered
                /\ registered[reg[r].resp.token_id].encrypted_data = reg[r].data
                /\ registered[reg[r].resp.token_id].platform = reg[r].platform

\* the Relay's part of C13: an answer that arrives intact makes the Relay add
\* exactly the answer's identifier to its index and answer success
C13_RelayStores ==
    \A r \in Regs :
       (/\ reg[r].pc = "responded" /\ reg'[r].pc = "done"
        /\ reg[r].resp.status = StatusOK /\ reg'[r].fault = "none")
       => /\ DOMAIN tokenIDs' = DOMAIN tokenIDs \cup {reg[r].resp.token_id}
          /\ reg'[r].out.success
          /\ reg'[r].out.status = StatusOK

InBounds(slices, raw) ==
    \A i \in 1..Len(slices) :
       0 <= slices[i][1] /\ slices[i][1] <= slices[i][2] /\ slices[i][2] <= raw

\* the text passed the size checks, decoded, and holds the 16 bytes of nonce and length
HasHeader(e) ==
    /\ e.n >= MinEncryptedLen /\ e.n <= MaxEncryptedLen
    /\ e.b64
    /\ e.raw >= HeaderLen

RoundTrip == probe.op = "decrypt" /\ probe.step = "sealed" /\ probe.key.id = probe.pub

AuthenticationFailed == {ErrRSA, ErrAES, ErrGCM}

\* one bit of the nonce, of the wrapped key or of the ciphertext with its tag was
\* inverted and the envelope decrypted with the matching private key
Tampered ==
    /\ probe.op = "decrypt" /\ probe.step = "flipped"
    /\ probe.region \in {"nonce", "wrapped", "ciphertext", "tag"}
    /\ probe.key.id = probe.pub

\* C17: an envelope with one bit inverted in its nonce, wrapped key or ciphertext
\* fails to decrypt with an error of the unwrapping or of the authenticated
\* decryption; no plaintext, and none of the damaged plaintext, is returned.
C17_TamperIsDetected ==
    Tampered =>
        /\ probe.res.err \in AuthenticationFailed
        /\ probe.res.token = 0
        /\ probe.res.tokenlen = 0

\* a bit of the ciphertext was inverted and gcm.Open refused the envelope
C17_Witness ==
    /\ Tampered
    /\ probe.region = "ciphertext"
    /\ probe.ptlen = 39
    /\ probe.res.err = ErrGCM


\* an untouched envelope was decrypted with the private key of another key pair
WrongKey == probe.op = "decrypt" /\ probe.step = "sealed" /\ probe.key.id # probe.pub

\* C19: an envelope sealed for one public key never decrypts under the private key
\* of an unrelated key pair: decryptHybridToken returns an error and no plaintext.
C19_WrongKeyNeverDecrypts ==
    WrongKey =>
        /\ probe.res.err # ""
        /\ probe.res.token = 0
        /\ probe.res.tokenlen = 0
        /\ (probe.key.size # probe.env.klen) => probe.res.err = ErrKeySize
        /\ (probe.key.size = probe.env.klen) => probe.res.err \in AuthenticationFailed

\* an envelope sealed for the other 4096-bit key was refused by the active key
C19_Witness ==
    /\ WrongKey
    /\ probe.pub = otherKey.id /\ probe.key = privateKey
    /\ probe.ptlen = 39
    /\ probe.res.err = ErrRSA


\* a well-formed request to the register or to the notify endpoint whose envelope
\* fails to decode: one bit of its nonce or ciphertext was inverted, or it was
\* sealed for another key of the same size
DecodeFailureRequest ==
    /\ probe.op \in {"register", "notify"}
    /\ probe.method = "POST" /\ probe.json
    /\ (probe.op = "notify") => probe.title # ""
    /\ \/ /\ probe.step = "flipped" /\ probe.pub = privateKey.id
          /\ probe.region \in {"nonce", "ciphertext", "tag"}
       \/ probe.step = "sealed" /\ probe.pub = otherKey.id

\* an envelope for the active key whose ciphertext was damaged
DamagedEnvelope == [encryptTokenHybrid(1, 39, privateKey) EXCEPT !.tag = FALSE]

\* C18: the answer to a request whose envelope fails to decode is the same, status
\* and body, whether the envelope was corrupted or sealed for a different key: it
\* equals the answer the endpoint gives to a damaged envelope.
C18_DecodeFailuresLookAlike ==
    DecodeFailureRequest =>
        probe.reply = IF probe.op = "register"
                      THEN handleRegisterReply("POST", TRUE, DamagedEnvelope)
                      ELSE handleNotify("POST", TRUE, DamagedEnvelope, probe.title, "hello",
                                        probe.fcmok)


\* the request apart from its encrypted_data is well-formed
WellFormedRequest ==
    /\ probe.op \in {"register", "notify"}
    /\ probe.method = "POST" /\ probe.json
    /\ (probe.op = "notify") => probe.title # ""

TooShortReply == Reply(StatusBadRequest, "Encrypted data too short", <<>>)
TooLongReply == Reply(StatusBadRequest, "Encrypted data too long", <<>>)

\* C20 as stated: a text shorter than 100 or longer than 10000 characters is
\* refused with the size error by decryptHybridToken and by both handlers, and a
\* text of 100 to 10000 characters is never refused with an error that says the
\* encrypted data is too short or too long.
C20_SizeErrorIffOutOfRange ==
    /\ (probe.op = "decrypt") =>
          /\ (probe.env.n < MinEncryptedLen) => probe.res.err = ErrTooShort
          /\ (probe.env.n > MaxEncryptedLen) => probe.res.err = ErrTooLong
          /\ (probe.env.n >= MinEncryptedLen /\ probe.env.n <= MaxEncryptedLen) =>
                probe.res.err \notin {ErrTooShort, ErrTooLong, ErrHeader}
    /\ WellFormedRequest =>
          /\ (probe.env.n < MinEncryptedLen) => probe.reply = TooShortReply
          /\ (probe.env.n > MaxEncryptedLen) => probe.reply = TooLongReply
          /\ (probe.env.n >= MinEncryptedLen /\ probe.env.n <= MaxEncryptedLen) =>
                probe.reply \notin {TooShortReply, TooLongReply}

\* C20 (amended): a non-empty text shorter than 100 or longer than 10000 characters
\* is refused with the size error before it is decoded, by decryptHybridToken and
\* by both handlers; the empty text is refused by decryptHybridToken as too short
\* and by the handlers as missing; a text of 100 to 10000 characters is never
\* refused by these length checks, and decryptHybridToken answers "encrypted data
\* too short" for it exactly when it decodes to fewer than 16 bytes.
C20_SizeChecked ==
    /\ (probe.op = "decrypt") =>
          /\ (probe.env.n < MinEncryptedLen) =>
                (probe.res.err = ErrTooShort /\ probe.res.slices = <<>>)
          /\ (probe.env.n > MaxEncryptedLen) =>
                (probe.res.err = ErrTooLong /\ probe.res.slices = <<>>)
          /\ (probe.env.n >= MinEncryptedLen /\ probe.env.n <= MaxEncryptedLen) =>
                /\ probe.res.err \notin {ErrTooShort, ErrTooLong}
                /\ (probe.res.err = ErrHeader) <=> (probe.env.b64 /\ probe.env.raw < HeaderLen)
    /\ WellFormedRequest =>
          /\ (probe.env.n = 0) =>
                /\ probe.reply.status = StatusBadRequest
                /\ probe.reply.message \in {"Encrypted data is required",
                                            "Encrypted data, title and body are required"}
          /\ (probe.env.n > 0 /\ probe.env.n < MinEncryptedLen) => probe.reply = TooShortReply
          /\ (probe.env.n > MaxEncryptedLen) => probe.reply = TooLongReply
          /\ (probe.env.n >= MinEncryptedLen /\ probe.env.n <= MaxEncryptedLen) =>
                probe.reply \notin {TooShortReply, TooLongReply}

\* a text of 10001 characters that is not base64 was refused by handleNotify as too long
C20_Witness ==
    /\ WellFormedRequest /\ probe.op = "notify"
    /\ probe.env.n = MaxEncryptedLen + 1
    /\ ~probe.env.b64
    /\ probe.reply = TooLongReply

(* ---- C21 ---- *)
\* the buffers that still hold the plaintext token
HoldsPlaintext(h) ==
    {b \in {"decryptedBytes", "decryptedToken"} :
        IF b = "decryptedBytes" THEN h.decryptedBytes.kind = "plaintext"
        ELSE h.decryptedToken.bytes.kind = "plaintext"}

\* handleNotify reached the provider call with a decrypted token
DeliveredOrFailed ==
    /\ probe.op = "notify"
    /\ probe.res.err = ""
    /\ probe.reply.status \in {StatusOK, StatusInternalServerError}

\* C21: when sendFCMNotification returns after a successful decryption, whether the
\* provider accepted the message or not, the unwrapped AES key is zeros and no
\* buffer holds the plaintext token.
C21_WipedAfterDelivery ==
    DeliveredOrFailed =>
        /\ probe.heap.aesKeyBytes = Zeroed
        /\ HoldsPlaintext(probe.heap) = {}

(* ---- C22 ---- *)
\* handleRegister answered after decryptHybridToken succeeded
RegisterDecrypted ==
    /\ probe.op = "register"
    /\ \/ probe.reply.status = StatusOK
       \/ probe.reply.message \in {"Decrypted token too short", "Decrypted token too long"}

\* C22: when handleRegister answers after a successful decryption, the rejections
\* for a token shorter than 10 or longer than 1000 characters included, the variable
\* that held the plaintext is empty and no buffer holds the plaintext token.
C22_WipedAfterRegister ==
    RegisterDecrypted =>
        /\ probe.heap.decryptedToken.var = ""
        /\ HoldsPlaintext(probe.heap) = {}

(* ---- C23 ---- *)
\* the envelope of the record a delivery resolved, sealing the token p instead
Resealed(p) == [EnvOf(dl.info.encrypted_data) EXCEPT !.pt = p]

\* a delivery request reached sendFCMNotification
Resolved == dl.reach /\ dl.outcome \in {"Delivered", "DecryptionFailed", "DeliveryFailed"}

\* the answer to the delivery is the same whatever token the envelope seals
ReplyIgnoresToken ==
    \A p \in 1..(MaxPlain + 1), fcmok \in BOOLEAN :
        LET sent == sendFCMNotification(Resealed(p), dl.title, dl.body, fcmok) IN
        (sent.err = <<>>) = (dl.outcome = "Delivered") => dl.reply.error = sent.err

FormatFailed == {ErrTooShort, ErrTooLong, ErrBase64, ErrHeader, ErrKeySize, ErrMalformed}

\* a register or deliver request whose envelope is malformed or fails authentication
UndecryptableRequest ==
    /\ probe.op \in {"register", "notify"}
    /\ probe.method = "POST" /\ probe.json
    /\ probe.op = "notify" => probe.title # ""
    /\ probe.env.n > 0
    /\ probe.res.err \in FormatFailed \cup AuthenticationFailed

\* a deliver request whose envelope decrypts and whose message the provider refuses
ProviderFailure ==
    /\ probe.op = "notify"
    /\ probe.method = "POST" /\ probe.json /\ probe.title # ""
    /\ probe.res.err = ""
    /\ ~probe.fcmok

\* C24: a register or deliver request whose envelope is malformed or fails
\* authentication is answered with a status of 400..499, a deliver request the
\* provider fails with a status of 500..599.
C24_FailureClasses ==
    /\ UndecryptableRequest => probe.reply.status \in 400..499
    /\ ProviderFailure => probe.reply.status \in 500..599

(* ---- C25 ---- *)
\* the objects of the bucket b outside the prefix of the instance
Foreign(b, hash) == [k \in {x \in DOMAIN b : x[1] # hash} |-> b[k]]

\* C25: a call of one storage instance leaves every object outside its own prefix
\* as it was and returns records of its own prefix only, whatever identifiers the
\* other instance on the bucket uses.
C25_InstancesIsolated ==
    sh.op # "none" =>
        /\ Foreign(bucket, sh.inst) = Foreign(sh.before, sh.inst)
        /\ \A info \in sh.seen :
              /\ info.public_key_hash = sh.inst
              /\ buildObjectKey(sh.inst, info.opaque_id) \in DOMAIN sh.before

\* both instances hold a record for the same identifier and the cleanup of one has
\* removed its own
C25_Witness ==
    /\ sh.op = "CleanupOldTokens"
    /\ sh.inst = publicKeyHash
    /\ buildObjectKey(publicKeyHash, OpaqueID(1)) \in DOMAIN sh.before \ DOMAIN bucket
    /\ buildObjectKey(otherKeyHash, OpaqueID(1)) \in DOMAIN bucket
    /\ bucket[buildObjectKey(otherKeyHash, OpaqueID(1))].last_used_at = 0

(* ---- C26 ---- *)
\* every external call in flight carries a time limit
C26_EveryCallIsBounded ==
    \A h \in Handlers : wait[h].pc = "waiting" => wait[h].timeout > 0

\* C26: every handler that is waiting for an external call answers its request in
\* the end, also when the callee never answers.
C26_HandlersAnswer ==
    \A h \in Handlers : (wait[h].pc = "waiting") ~> (wait[h].pc = "done")

(* ---- C27 ---- *)
\* no goroutine is inside AddTokenID
Quiescent == \A g \in Goroutines : conc.th[g].pc = "idle"

\* C27: whatever the interleaving of concurrent AddTokenID calls, every identifier
\* a call has returned for is in the store; once all calls have returned the store
\* holds exactly the identifiers added, Count is their number and GetTokenIDs
\* returns exactly that set.
C27_NoLostUpdate ==
    /\ conc.called \subseteq DOMAIN tokenIDs
    /\ Quiescent =>
          /\ GetTokenIDs(tokenIDs) = conc.called
          /\ Count(tokenIDs) = Cardinality(conc.called)
    /\ conc.seen.count = Cardinality(conc.seen.ids)
    /\ conc.seen.ids \subseteq DOMAIN tokenIDs

\* two calls for different identifiers were made within one tick of the clock and
\* both identifiers are read back
C27_Witness ==
    /\ Quiescent
    /\ conc.called = {OpaqueID(1), OpaqueID(2)}
    /\ conc.seen.count = 2
    /\ conc.seen.ids = {OpaqueID(1), OpaqueID(2)}
    /\ tokenIDs[OpaqueID(1)] = tokenIDs[OpaqueID(2)]

(* ---- C28 ---- *)
\* goroutine g completes the map assignment for an identifier the store holds
ReAdds(g) ==
    /\ conc.th[g].pc = "store"
    /\ conc'.th[g].pc = "unlock"
    /\ conc.th[g].id \in DOMAIN tokenIDs

\* C28: AddTokenID for an identifier the store already holds leaves the set of
\* identifiers and every other entry as they were; only the time of that
\* identifier is overwritten, with the time of the call.
C28_ReAddIsIdempotent ==
    [][\A g \in Goroutines :
          ReAdds(g) =>
              /\ GetTokenIDs(tokenIDs') = GetTokenIDs(tokenIDs)
              /\ Count(tokenIDs') = Count(tokenIDs)
              /\ tokenIDs'[conc.th[g].id] = now
              /\ \A other \in DOMAIN tokenIDs \ {conc.th[g].id} :
                    tokenIDs'[other] = tokenIDs[other]]_vars

\* an identifier was added again at a later time, next to another identifier
C28_Witness ==
    \E g \in Goroutines :
        /\ conc.th[g].pc = "unlock"
        /\ conc.th[g].id \in DOMAIN conc.th[g].map
        /\ conc.th[g].map[conc.th[g].id] < tokenIDs[conc.th[g].id]
        /\ Cardinality(DOMAIN tokenIDs) = 2
        /\ DOMAIN conc.th[g].map = DOMAIN tokenIDs

(* ---- C29 ---- *)
\* the Relay's handleRegister answers every request that is not a POST with 405 and
\* every POST whose body is not JSON or carries no encrypted_data with 400
RegisterRejections ==
    \A req \in Requests :
        LET st == RelayRegisterCheck(req.method, req.json, Env(req.k)) IN
        /\ req.method # "POST" => st = StatusMethodNotAllowed
        /\ req.method = "POST" /\ (~req.json \/ Env(req.k) = EmptyEnv) => st = StatusBadRequest

\* handler r answers 405 or 400 in this step
RejectsEarly(r) ==
    /\ reg[r].pc \in {"idle", "done"}
    /\ reg'[r] # reg[r]
    /\ reg'[r].pc = "done"
    /\ reg'[r].out.status \in {StatusMethodNotAllowed, StatusBadRequest}

\* C29: the Relay's handleRegister answers a request that is not a POST with 405 and
\* a POST with invalid JSON or without encrypted_data with 400; in doing so it does
\* not contact the Decryptor and leaves the TokenStore as it was.
C29_RelayRejectsEarly ==
    [][/\ RegisterRejections
       /\ \A r \in Regs :
             RejectsEarly(r) =>
                 /\ tokenIDs' = tokenIDs
                 /\ UNCHANGED <<tokens, bucket, used, returned, registered>>
                 /\ reg'[r].stored = NoID
                 /\ reg'[r].fault = "none"
                 /\ ~reg'[r].out.success]_vars

\* a request was rejected with 405 while the TokenStore held an identifier
C29_Witness ==
    \E r \in Regs :
        /\ reg[r].pc = "done"
        /\ reg[r].out.status = StatusMethodNotAllowed
        /\ Count(tokenIDs) = 1
        /\ Cardinality(DOMAIN bucket) = 1

(* ---- C30 ---- *)
\* the Relay's handleSendAll answers every request that is not a POST with 405, a
\* POST without a message with 400, and a POST while the index is empty with 400
SendAllRejections ==
    \A method \in Methods, message \in Messages :
        LET st == handleSendAllCheck(method, message, GetTokenIDs(tokenIDs)) IN
        /\ method # "POST" => st = StatusMethodNotAllowed
        /\ method = "POST" /\ message = "" => st = StatusBadRequest
        /\ method = "POST" /\ GetTokenIDs(tokenIDs) = {} => st = StatusBadRequest

\* C30: the Relay's handleSendAll answers a request that is not a POST with 405, an
\* empty message with 400 and an empty index with 400, and in none of these cases
\* sends a delivery request.
C30_SendAllRejectsEarly ==
    /\ SendAllRejections
    /\ bc.status \in {StatusMethodNotAllowed, StatusBadRequest} =>
          /\ bc.pc = "done"
          /\ bc.sent = 0 /\ bc.errors = 0
          /\ bc.snapshot = {} /\ bc.ids = {}

\* a broadcast was rejected while the index held an identifier
C30_Witness ==
    /\ bc.pc = "done"
    /\ bc.status = StatusBadRequest
    /\ Count(tokenIDs) >= 1

C32_LastUsedNeverDecreases ==
    [][\A key \in DOMAIN bucket \cap DOMAIN bucket' :
          bucket'[key].last_used_at >= bucket[key].last_used_at]_vars

\* the step in which the GetToken call of goroutine t returns after a failed write-back
WriteBackFails(t) ==
    /\ touch[t].pc = "read"
    /\ touch'[t].pc = "done"
    /\ touch'[t].warned

\* C33: when the last-used write-back of a GetToken call fails, the call still
\* returns the record without an error, with the envelope it read unchanged, and the
\* stored record is what it was before the write-back.
C33_FailedWriteBackIsHarmless ==
    [][\A t \in Touchers :
          WriteBackFails(t) =>
              /\ bucket' = bucket
              /\ touch'[t].ret.err = ""
              /\ touch'[t].ret.info = touch[t].info
              /\ touch'[t].ret.info.encrypted_data = touch[t].before.encrypted_data
              /\ touch'[t].ret.info.opaque_id = touchID]_vars

\* a call returned its record after a failed write-back that would have moved
\* last_used_at, and the stored record is the one the call read
C33_Witness ==
    \E t \in Touchers :
        /\ touch[t].pc = "done"
        /\ touch[t].warned
        /\ touch[t].ret.err = ""
        /\ touch[t].ret.info.last_used_at > touch[t].before.last_used_at
        /\ Stored(touchID)
        /\ bucket[ObjectKey(touchID)] = touch[t].before

\* C36: a record whose stored last_used_at has been refreshed to within the retention
\* window when the cleanup pass issues its delete for it is not deleted by that pass.
C36_RefreshedIsNotDeleted ==
    [][\A key \in DOMAIN bucket \ DOMAIN bucket' :
          cl.pc = "deleting" => Before(bucket[key].last_used_at, cl.cutoff)]_vars

\* ListAllTokens has fetched the last key it listed, and no other operation touched
\* the bucket since its ListObjectsV2 call
ListingEnded ==
    /\ cl.pc = "listing"
    /\ cl.keys = <<>>
    /\ cl.quiet
\* the records ListAllTokens returns
Listed == {cl.tokens[i] : i \in 1..Len(cl.tokens)}
\* the records under the prefix of the instance when ListAllTokens was called
UnderPrefix == {cl.before[key] : key \in {k \in DOMAIN cl.before : k[1] = publicKeyHash}}

\* C34: ListAllTokens returns every readable record stored under the prefix of the
\* instance, whatever their number; an object that cannot be fetched is skipped
\* and the listing does not fail.
C34_ListAllTokensIsComplete ==
    ListingEnded =>
        /\ ~cl.err
        /\ Listed \subseteq UnderPrefix
        /\ Len(cl.tokens) = cl.listed => Listed = UnderPrefix
        /\ Cardinality(UnderPrefix) - Cardinality(Listed) <= cl.listed - Len(cl.tokens)

\* C35: no operation goes out of bounds when it slices an identifier for its log
\* line: for every non-empty identifier the previews (first and last 8 characters in
\* the Relay, first 16 in the storage) stay within the string, so that no operation
\* that has taken effect ends in a panic.
C35_PreviewsInBounds ==
    lg.op # "none" =>
        /\ ~lg.panic
        /\ \A i \in 1..Len(lg.slices) :
              0 <= lg.slices[i][1] /\ lg.slices[i][2] <= lg.len

\* the step of the cleanup loop for the token it has reached
CleanupStep == cl.pc = "deleting" /\ cl' # cl /\ cl'.tokens = cl.tokens /\ cl'.i # cl.i

\* C36 as the code has it: the pass decides on the copy of the record that
\* ListAllTokens fetched. A record is deleted by the pass only if the last_used_at
\* of its listed copy is before the cutoff, whatever was stored since; a token
\* whose listed copy is not before the cutoff is left alone.
C36_ListedCopyDecides ==
    [][/\ \A key \in DOMAIN bucket \ DOMAIN bucket' :
             /\ cl.pc = "deleting"
             /\ key = ObjectKey(cl.tokens[cl.i].opaque_id)
             /\ cl.tokens[cl.i].last_used_at < cl.cutoff
       /\ (CleanupStep /\ ~(cl.tokens[cl.i].last_used_at < cl.cutoff)) =>
             bucket' = bucket]_vars

\* a GetToken call stored a last_used_at within the window of a pass whose listed
\* copy was older, and the pass deleted the record
C36_Witness ==
    /\ cl.pc = "done"
    /\ Len(cl.attempts) = 1 /\ cl.attempts[1].ok
    /\ cl.tokens[1].last_used_at < cl.cutoff
    /\ ~Stored(touchID)
    /\ \E t \in Touchers :
          /\ touch[t].pc = "done"
          /\ touch[t].ret.err = ""
          /\ ~touch[t].warned
          /\ touch[t].info.last_used_at >= cl.cutoff

\* C37: every identifier in the Relay's index refers to a record that is present in
\* the Decryptor's store: the Relay does not hold the identifier of a record that
\* was evicted or deleted.
C37_IndexRefersToStoredRecords ==
    \A tokenID \in DOMAIN tokenIDs : Stored(tokenID)

\* the broadcast loop has just tried tokenID
Tried(tokenID) ==
    /\ bc.pc = "sending"
    /\ tokenID \in bc.ids
    /\ tokenID \notin bc'.ids

\* C37 as the code has it: the Relay never removes an identifier from its index; a
\* broadcast takes every identifier of the index, those of removed records
\* included, tries each of them and counts one error for an identifier whose
\* record is gone, storing nothing.
C37_StaleIdsAreKeptAndTried ==
    [][/\ DOMAIN tokenIDs \subseteq DOMAIN tokenIDs'
       /\ (bc.pc # "sending" /\ bc'.pc = "sending") =>
             bc'.snapshot = DOMAIN tokenIDs /\ bc'.ids = DOMAIN tokenIDs
       /\ \A tokenID \in DOMAIN tokenIDs :
             (Tried(tokenID) /\ ~Stored(tokenID)) =>
                 /\ bc'.errors = bc.errors + 1
                 /\ bc'.sent = bc.sent
                 /\ bucket' = bucket]_vars

\* a broadcast over an index that holds the identifier of a removed record has
\* ended with an error counted for that identifier
C37_Witness ==
    /\ bc.pc = "done" /\ bc.status = StatusSeeOther
    /\ \E tokenID \in bc.snapshot :
          /\ tokenID \in DOMAIN tokenIDs
          /\ tokenID \in evicted
          /\ ~Stored(tokenID)
          /\ bc.snapshot = {tokenID}
          /\ bc.errors = 1 /\ bc.sent = 0
====
